---- MODULE Spec2Model ----
(***************************************************************************)
(* A model of txml (src/txml.ts): the tokenizer parseXml, a generator that *)
(* is pulled one token at a time, and its consumer buildXmlTree.           *)
(*                                                                         *)
(* The input is a sequence of UTF-16 code units.  Offsets are 0-based as   *)
(* in the source; CharCodeAt does the 0-based lookup in the 1-based        *)
(* sequence.  An optional value (`attributes?`, `children?`, an absent     *)
(* parentTagName) is None == <<>> or Some(v) == <<v>>.                     *)
(***************************************************************************)
EXTENDS Integers, Sequences, FiniteSets, TLC

(***************************************************************************)
(* enum CodePoint                                                          *)
(***************************************************************************)
EXCLAMATION == 33
DOUBLE_QUOTE == 34
SINGLE_QUOTE == 39
ANGLE_BRACKET_OPEN == 60
EQUAL == 61
ANGLE_BRACKET_CLOSE == 62
QUESTION == 63
FORWARD_SLASH == 47
BACK_SLASH == 92
SQUARE_BRACKET_OPEN == 91
SQUARE_BRACKET_CLOSE == 93
HYPHEN == 45
COLON == 58
LF == 10
CR == 13
TAB == 9
SPACE == 32
AMPERSAND == 38
SEMICOLON == 59

\* What String.prototype.charCodeAt returns outside the string, and what
\* Number.parseInt returns when it finds no digit.  A number no code unit and
\* no numeric reference of the inputs equals.
NaN == -1000000

\* String.fromCharCode takes each argument modulo 2^16 (ToUint16).
CodeUnits == 65536

None == <<>>
Some(v) == <<v>>

(***************************************************************************)
(* Text of the source written as TLA+ tuples of one-character strings.     *)
(***************************************************************************)
Ord(ch) ==
  CASE ch = "<" -> ANGLE_BRACKET_OPEN
    [] ch = ">" -> ANGLE_BRACKET_CLOSE
    [] ch = "/" -> FORWARD_SLASH
    [] ch = "?" -> QUESTION
    [] ch = "!" -> EXCLAMATION
    [] ch = "-" -> HYPHEN
    [] ch = "[" -> SQUARE_BRACKET_OPEN
    [] ch = "]" -> SQUARE_BRACKET_CLOSE
    [] ch = "=" -> EQUAL
    [] ch = "\"" -> DOUBLE_QUOTE
    [] ch = "'" -> SINGLE_QUOTE
    [] ch = "\\" -> BACK_SLASH
    [] ch = "&" -> AMPERSAND
    [] ch = ";" -> SEMICOLON
    [] ch = ":" -> COLON
    [] ch = " " -> SPACE
    [] ch = "\n" -> LF
    [] ch = "\t" -> TAB
    [] ch = "\r" -> CR
    [] ch = "#" -> 35
    [] ch = "." -> 46
    [] ch = "0" -> 48
    [] ch = "1" -> 49
    [] ch = "5" -> 53
    [] ch = "6" -> 54
    [] ch = "9" -> 57
    [] ch = "A" -> 65
    [] ch = "C" -> 67
    [] ch = "D" -> 68
    [] ch = "T" -> 84
    [] ch = "Z" -> 90
    [] ch = "a" -> 97
    [] ch = "b" -> 98
    [] ch = "c" -> 99
    [] ch = "d" -> 100
    [] ch = "e" -> 101
    [] ch = "f" -> 102
    [] ch = "g" -> 103
    [] ch = "h" -> 104
    [] ch = "i" -> 105
    [] ch = "k" -> 107
    [] ch = "l" -> 108
    [] ch = "m" -> 109
    [] ch = "n" -> 110
    [] ch = "o" -> 111
    [] ch = "p" -> 112
    [] ch = "q" -> 113
    [] ch = "r" -> 114
    [] ch = "s" -> 115
    [] ch = "t" -> 116
    [] ch = "u" -> 117
    [] ch = "v" -> 118
    [] ch = "w" -> 119
    [] ch = "x" -> 120
    [] ch = "y" -> 121
    [] ch = "z" -> 122

Str(t) == [i \in 1..Len(t) |-> Ord(t[i])]

RECURSIVE Flat(_)
Flat(ss) == IF ss = <<>> THEN <<>> ELSE Head(ss) \o Flat(Tail(ss))

\* All sequences of at most n elements of S.
SeqsUpTo(S, n) == UNION {[1..k -> S] : k \in 0..n}

(***************************************************************************)
(* The code-point predicates.                                              *)
(***************************************************************************)
_isAlphabetic(codepoint) ==
  (codepoint < 91 /\ codepoint > 64) \/ (codepoint < 123 /\ codepoint > 96)

_isNumeric(codepoint) == codepoint > 47 /\ codepoint < 58

\* Not what the code does: only the space counts as whitespace
_isSpace(codepoint) == codepoint = SPACE

_isWhitespace(codepoint) == codepoint \in {CR, LF, TAB, SPACE}

_isValidIdentifier(codepoint) ==
  \/ _isAlphabetic(codepoint)
  \/ _isNumeric(codepoint)
  \/ codepoint = COLON
  \/ codepoint = HYPHEN

\* String.fromCharCode of one number.
FromCharCode(c) == IF c = NaN THEN 0 ELSE c % CodeUnits

\* getContentAsStr, and String.fromCharCode(...content): a string is kept as
\* the sequence of its code units.
getContentAsStr(content) == [i \in 1..Len(content) |-> FromCharCode(content[i])]

\* The last index i of s with P-value v at key k (0 if none).
RECURSIVE LastWithKey(_, _, _)
LastWithKey(attributes, k, i) ==
  IF i = 0 THEN 0
  ELSE IF getContentAsStr(attributes[i].key) = k THEN i
  ELSE LastWithKey(attributes, k, i - 1)

\* getAttributesAsMap: Object.fromEntries keeps, for a repeated key, the last
\* entry.
getAttributesAsMap(attributes) ==
  [k \in {getContentAsStr(attributes[i].key) : i \in 1..Len(attributes)} |->
     getContentAsStr(attributes[LastWithKey(attributes, k, Len(attributes))].value)]

(***************************************************************************)
(* The state.  xml and consumer are fixed by the caller; the next group is *)
(* the generator parseXml (its locals and where it stands); out is the     *)
(* tokens it has yielded so far; the last group is the consumer.           *)
(***************************************************************************)
VARIABLES
  xml,                \* the XMLInput
  canSkipStartingWhitespace,  \* the second argument of parseXml
  consumer,           \* who pulls the generator: "drain" ([...parseXml(xml)]), "build"
                      \* (buildXmlTree) or "walk" (walkXmlNodes)
  pos, line, column,
  state,              \* ParserState
  rtState,            \* ReadingTagState
  canSkipWhitespace,
  token,              \* the scratch XMLToken
  attribute,          \* the scratch XMLTokenAttribute
  entity_bytes, ei,   \* the locals of entity_loop
  pc,                 \* "scan": in the for loop; "entity": in entity_loop;
                      \* "done": returned; "failed": threw; "closed": ended by
                      \* the for...of of its consumer
  error,              \* the message of the Error thrown, "" if none
  out,                \* the tokens yielded, in order
  taken,              \* how many of them the consumer has received
  bstack,             \* the active calls of buildXmlTree, outermost first
  bpc,                \* "pulling", "returned", "mismatch" (threw), "failed" (parseXml threw)
  tree,               \* the Array<XMLNode> the outermost buildXmlTree returned
  wpc,                \* walkXmlNodes: "pulling", "returned", "stopped" (the callback
                      \* returned true), "mismatch" (threw), "failed" (parseXml threw)
  parents,            \* the `parents` array of walkXmlNodes
  calls               \* the calls of the callback so far: path, node, parents and
                      \* whether the call returned true

genVars == <<pos, line, column, state, rtState, canSkipWhitespace, token, attribute,
             entity_bytes, ei, pc, error, out>>
buildVars == <<taken, bstack, bpc, tree>>
walkVars == <<wpc, parents, calls>>
vars == <<xml, canSkipStartingWhitespace, consumer, genVars, buildVars, walkVars>>

\* xml.charCodeAt(i)
CharCodeAt(i) == IF i >= 0 /\ i < Len(xml) THEN xml[i + 1] ELSE NaN

c0 == CharCodeAt(pos)

_sliceEqualsStr(needle, start_index) ==
  \A i \in 0..(Len(needle) - 1) : needle[i + 1] = CharCodeAt(start_index + i)

\* How many code units of needle _sliceEqualsStr compares: it returns at the
\* first one that differs
RECURSIVE Compared(_, _)
Compared(needle, start_index) ==
  IF needle = <<>> THEN 0
  ELSE IF Head(needle) # CharCodeAt(start_index) THEN 1
  ELSE 1 + Compared(Tail(needle), start_index + 1)

\* Not what the code does: the flag is left off whatever the argument
StartingSkipOff(flag) == FALSE

\* let canSkipWhitespace = canSkipStartingWhitespace
StartingSkip(flag) == flag

\* const token / const attribute as parseXml declares them
InitialToken ==
  [type |-> "TEXT", tag |-> "NONE", content |-> <<>>, start |-> -1, end |-> -1,
   attributes |-> None]

InitialAttribute == [key |-> <<>>, value |-> <<>>, term_c |-> 0, start |-> 0, end |-> 0]

\* _resetAttribute(): the scratch attribute after the reset
ResetAttribute == [key |-> <<>>, value |-> <<>>, term_c |-> 0, start |-> -1, end |-> -1]

\* A push that puts the copy in front of the attributes read before it
PushAttributeInFront(tok, attr) ==
  [tok EXCEPT !.attributes =
     Some(<<attr>> \o (IF tok.attributes = None THEN <<>> ELSE tok.attributes[1]))]

\* _resetAttribute(true): token.attributes after the push of a copy of attr
PushAttribute(tok, attr) ==
  [tok EXCEPT !.attributes =
     Some((IF tok.attributes = None THEN <<>> ELSE tok.attributes[1]) \o <<attr>>)]

\* Not what the code does: a reset that leaves the tag of the scratch token
_resetTokenKeepingTag(p) ==
  [type |-> "TEXT", tag |-> token.tag, content |-> <<>>, start |-> p, end |-> -1,
   attributes |-> None]

\* _resetToken(): the scratch token after the reset, made at offset p
_resetToken(p) ==
  [type |-> "TEXT", tag |-> "NONE", content |-> <<>>, start |-> p, end |-> -1,
   attributes |-> None]

\* _cloneAndFreezeToken(): a deep copy, so the value itself
_cloneAndFreezeToken(tok) == tok

\* Not what the code does: a copy that keeps the scratch token's content
\* array, so that the yielded token shows what the scratch content becomes
SharingContent(yieldedToken, scratch) == [yieldedToken EXCEPT !.content = scratch.content]

\* structuredClone(token): a yielded token shares no array with the scratch
\* token, so it stays as it is whatever the scratch token becomes
Detached(yieldedToken, scratch) == yieldedToken

\* const entityMap
entityMap ==
  (Str(<<"q", "u", "o", "t">>) :> DOUBLE_QUOTE) @@
  (Str(<<"a", "m", "p">>) :> AMPERSAND) @@
  (Str(<<"l", "t">>) :> ANGLE_BRACKET_OPEN) @@
  (Str(<<"g", "t">>) :> ANGLE_BRACKET_CLOSE) @@
  (Str(<<"a", "p", "o", "s">>) :> SINGLE_QUOTE)

\* Number.parseInt(s, 10): leading white space, an optional sign, then the
\* longest run of decimal digits; NaN when that run is empty.
RECURSIVE DigitsValue(_, _)
DigitsValue(s, acc) ==
  IF s = <<>> \/ ~_isNumeric(Head(s)) THEN acc
  ELSE DigitsValue(Tail(s), 10 * acc + (Head(s) - 48))

RECURSIVE ParseInt(_)
ParseInt(s) ==
  IF s = <<>> THEN NaN
  ELSE IF _isWhitespace(Head(s)) THEN ParseInt(Tail(s))
  ELSE LET signed == Head(s) \in {HYPHEN, 43}
           digits == IF signed THEN Tail(s) ELSE s
       IN IF digits = <<>> \/ ~_isNumeric(Head(digits)) THEN NaN
          ELSE IF Head(s) = HYPHEN THEN 0 - DigitsValue(digits, 0)
          ELSE DigitsValue(digits, 0)

\* _translateEntity(from): whether it throws, and what it returns otherwise
_translateEntityThrows(from) ==
  ~(from # <<>> /\ Head(from) = 35) /\ from \notin DOMAIN entityMap

\* A translation that knows the named entities only
_translateEntityByNameOnly(from) ==
  IF from \in DOMAIN entityMap THEN entityMap[from] ELSE NaN

_translateEntity(from) ==
  IF from # <<>> /\ Head(from) = 35 THEN ParseInt(Tail(from)) ELSE entityMap[from]

(***************************************************************************)
(* parseXml.  One action is one pass of `for (; pos < xml.length; ++pos)`, *)
(* split by the branch the pass takes; a pass that yields appends the      *)
(* token to out and runs on to the end of the pass.  The generator runs    *)
(* only while its consumer waits in tokens.next().                         *)
(***************************************************************************)
Pulled ==
  \/ consumer = "drain"
  \/ consumer = "build" /\ bpc = "pulling" /\ taken = Len(out)
  \/ consumer = "walk" /\ wpc = "pulling" /\ taken = Len(out)

InLoop == pc = "scan" /\ Pulled /\ pos < Len(xml)

\* ++line / column after lines 270-276
LineAfter == IF c0 = LF THEN line + 1 ELSE line
ColumnAfter == (IF c0 = LF THEN 1 ELSE column) + (IF c0 = TAB THEN 4 ELSE 1)

\* The pass reaches switch (state)
Dispatch(st) ==
  /\ InLoop
  /\ c0 # 0 /\ c0 # NaN
  /\ ~(canSkipWhitespace /\ _isWhitespace(c0))
  /\ state = st

\* The pass ends normally: p is pos, col is column, at the end of the body;
\* yielded is the tokens the pass yielded.
Pass(p, col, st, rt, skip, tok, attr, yielded) ==
  /\ pos' = p + 1
  /\ line' = LineAfter
  /\ column' = col
  /\ state' = st
  /\ rtState' = rt
  /\ canSkipWhitespace' = skip
  /\ token' = tok
  /\ attribute' = attr
  /\ out' = [i \in 1..Len(out) |-> Detached(out[i], tok)] \o yielded
  /\ pc' = "scan"
  /\ UNCHANGED <<entity_bytes, ei, error>>
  /\ UNCHANGED <<xml, canSkipStartingWhitespace, consumer, buildVars, walkVars>>

\* _throwError(msg) inside the switch: the locals keep what the pass wrote
Throw(msg, skip, tok, attr) ==
  /\ pc' = "failed"
  /\ error' = msg
  /\ line' = LineAfter
  /\ column' = ColumnAfter
  /\ canSkipWhitespace' = skip
  /\ token' = tok
  /\ attribute' = attr
  /\ UNCHANGED <<pos, state, rtState, entity_bytes, ei, out>>
  /\ UNCHANGED <<xml, canSkipStartingWhitespace, consumer, buildVars, walkVars>>

\* line 267
ZeroCodePoint ==
  /\ InLoop
  /\ c0 = 0 \/ c0 = NaN
  /\ pc' = "failed"
  /\ error' = "CodePoint NaN or Zero"
  /\ UNCHANGED <<pos, line, column, state, rtState, canSkipWhitespace, token,
                 attribute, entity_bytes, ei, out>>
  /\ UNCHANGED <<xml, canSkipStartingWhitespace, consumer, buildVars, walkVars>>

\* line 279
SkipWhitespace ==
  /\ InLoop
  /\ c0 # 0 /\ c0 # NaN
  /\ canSkipWhitespace /\ _isWhitespace(c0)
  /\ Pass(pos, ColumnAfter, state, rtState, canSkipWhitespace, token, attribute, <<>>)

\* How far `pos += n` jumps when a tag, a CDATA or a comment opener is met
OpenerSkip(c1) ==
  IF c1 = QUESTION \/ c1 = FORWARD_SLASH THEN 1
  ELSE IF _isAlphabetic(c1) THEN 0
  ELSE IF _sliceEqualsStr(Str(<<"!", "[", "C", "D", "A", "T", "A", "[">>), pos + 1) THEN 8
  ELSE 3

\* case ParserState.NONE
ScanNone ==
  /\ Dispatch("NONE")
  /\ LET c1 == CharCodeAt(pos + 1)
         n == OpenerSkip(c1)
         opened(type, tag) == [token EXCEPT !.type = type, !.tag = tag, !.start = @ + n]
     IN IF c0 # ANGLE_BRACKET_OPEN
        THEN Pass(pos - 1, ColumnAfter - 1, "READING_TEXT_NODE", rtState, FALSE,
                  token, attribute, <<>>)
        ELSE IF c1 = QUESTION
        THEN Pass(pos + n, ColumnAfter + n, "READING_TAG_UNTIL_CLOSE", rtState, FALSE,
                  opened("TAG_SELF_CLOSE", "DECLARATION"), attribute, <<>>)
        ELSE IF c1 = FORWARD_SLASH
        THEN Pass(pos + n, ColumnAfter + n, "READING_TAG_UNTIL_CLOSE", rtState, FALSE,
                  opened("TAG_CLOSE", "ARBITRARY"), attribute, <<>>)
        ELSE IF _isAlphabetic(c1)
        THEN Pass(pos + n, ColumnAfter + n, "READING_TAG_UNTIL_CLOSE", rtState, FALSE,
                  opened("TAG_OPEN", "ARBITRARY"), attribute, <<>>)
        ELSE IF _sliceEqualsStr(Str(<<"!", "[", "C", "D", "A", "T", "A", "[">>), pos + 1)
        THEN Pass(pos + n, ColumnAfter + n, "READING_CDATA", rtState, FALSE,
                  opened("TAG_SELF_CLOSE", "CDATA"), attribute, <<>>)
        ELSE IF _sliceEqualsStr(Str(<<"!", "-", "-">>), pos + 1)
        THEN Pass(pos + n, ColumnAfter + n, "READING_COMMENT", rtState, FALSE,
                  opened("TAG_SELF_CLOSE", "COMMENT"), attribute, <<>>)
        ELSE Throw("Invalid tag name", FALSE, token, attribute)

\* `pos += 3` after a comment or CDATA block was yielded (lines 354, 370)
CloserSkip == 3

\* case ParserState.READING_COMMENT and case ParserState.READING_CDATA, which
\* differ in the closer only
\* Not what the code does: whitespace is left out of the content
BlockPushUnlessWhitespace(tok, c, p) ==
  IF _isWhitespace(c) THEN [tok EXCEPT !.end = p]
  ELSE [tok EXCEPT !.content = Append(@, c), !.end = p]

\* token.content.push(c0); token.end = pos, in a comment and in a CDATA block
BlockPush(tok, c, p) == [tok EXCEPT !.content = Append(@, c), !.end = p]

ScanBlock(closer) ==
  IF c0 = closer[1] /\ _sliceEqualsStr(closer, pos)
  THEN Pass(pos + CloserSkip, ColumnAfter + CloserSkip, "NONE", rtState, TRUE,
            _resetToken(pos), ResetAttribute, <<_cloneAndFreezeToken(token)>>)
  ELSE Pass(pos, ColumnAfter, state, rtState, canSkipWhitespace,
            BlockPush(token, c0, pos), attribute, <<>>)

ScanComment ==
  /\ Dispatch("READING_COMMENT")
  /\ ScanBlock(Str(<<"-", "-", ">">>))

ScanCdata ==
  /\ Dispatch("READING_CDATA")
  /\ ScanBlock(Str(<<"]", "]", ">">>))

\* Not what the code does: the code unit is put in front of the content
TextPushInFront(tok, c, p) == [tok EXCEPT !.content = <<c>> \o @, !.end = p]

\* token.content.push(c0); token.end = pos
TextPush(tok, c, p) == [tok EXCEPT !.content = Append(@, c), !.end = p]

\* case ParserState.READING_TEXT_NODE; an ampersand enters entity_loop
ScanText ==
  /\ Dispatch("READING_TEXT_NODE")
  /\ IF c0 = ANGLE_BRACKET_OPEN
     THEN Pass(pos - 1, ColumnAfter - 1, "NONE", rtState, TRUE,
               _resetToken(pos), ResetAttribute, <<_cloneAndFreezeToken(token)>>)
     ELSE IF c0 = AMPERSAND
     THEN /\ pc' = "entity"
          /\ entity_bytes' = <<>>
          /\ ei' = 1
          /\ line' = LineAfter
          /\ column' = ColumnAfter
          /\ UNCHANGED <<pos, state, rtState, canSkipWhitespace, token, attribute,
                         error, out>>
          /\ UNCHANGED <<xml, canSkipStartingWhitespace, consumer, buildVars, walkVars>>
     ELSE Pass(pos, ColumnAfter, state, rtState, canSkipWhitespace,
               TextPush(token, c0, pos), attribute, <<>>)

\* How many reads past the end of the input entity_loop is followed for: from
\* there on every read gives NaN, never a semicolon, and each pass only grows
\* entity_bytes and moves token.end; of those passes the model keeps that
\* they are taken (ei goes on changing), not how many there were.
EntityOverrun == 2

\* entity_loop (lines 385-390), one pass of it, and lines 391-394 once it has
\* met the semicolon
EntityLoop ==
  /\ pc = "entity" /\ Pulled
  /\ LET ec == CharCodeAt(pos + ei)
         n == Len(entity_bytes)
         from == getContentAsStr(entity_bytes)
         counted == [token EXCEPT !.end = @ + 1]
     IN IF ec = SEMICOLON
        THEN IF _translateEntityThrows(from)
             THEN /\ pc' = "failed"
                  /\ error' = "translation for entity not found"
                  /\ token' = counted
                  /\ pos' = pos + n + 1
                  /\ column' = column + n + 1
                  /\ UNCHANGED <<line, state, rtState, canSkipWhitespace, attribute,
                                 entity_bytes, ei, out>>
                  /\ UNCHANGED <<xml, canSkipStartingWhitespace, consumer, buildVars, walkVars>>
             ELSE Pass(pos + n + 1, column + n + 1, state, rtState, canSkipWhitespace,
                       [counted EXCEPT !.content = Append(@, _translateEntity(from))],
                       attribute, <<>>)
        ELSE IF pos + ei >= Len(xml) + EntityOverrun
        THEN /\ ei' = IF pos + ei = Len(xml) + EntityOverrun THEN ei + 1 ELSE ei - 1
             /\ UNCHANGED <<pos, line, column, state, rtState, canSkipWhitespace, token,
                            attribute, entity_bytes, pc, error, out>>
             /\ UNCHANGED <<xml, canSkipStartingWhitespace, consumer, buildVars, walkVars>>
        ELSE /\ entity_bytes' = Append(entity_bytes, ec)
             /\ token' = [token EXCEPT !.end = pos + ei]
             /\ ei' = ei + 1
             /\ UNCHANGED <<pos, line, column, state, rtState, canSkipWhitespace,
                            attribute, pc, error, out>>
             /\ UNCHANGED <<xml, canSkipStartingWhitespace, consumer, buildVars, walkVars>>

\* Not what the code does: the tag ends at `>`, `/>` or `?>` in any sub-state
TagEndsAnywhere(c1) ==
  \/ c0 = FORWARD_SLASH /\ c1 = ANGLE_BRACKET_CLOSE
  \/ c0 = QUESTION /\ c1 = ANGLE_BRACKET_CLOSE
  \/ c0 = ANGLE_BRACKET_CLOSE

\* lines 425-430: the tag ends here
TagEnds(c1) ==
  /\ rtState = "READING_ATTR_NAME" \/ rtState = "READING_TAG_NAME"
  /\ \/ c0 = FORWARD_SLASH /\ c1 = ANGLE_BRACKET_CLOSE
     \/ c0 = QUESTION /\ c1 = ANGLE_BRACKET_CLOSE
     \/ c0 = ANGLE_BRACKET_CLOSE

\* Not what the code does: a backslash escapes either quote character
EscapesAnyQuote(c1, attr) == c0 = BACK_SLASH /\ c1 \in {DOUBLE_QUOTE, SINGLE_QUOTE}

\* c0 === CodePoint.BACK_SLASH && c1 === attribute.term_c
Escapes(c1, attr) == c0 = BACK_SLASH /\ c1 = attr.term_c

\* A tokenizer that lets `?>` end any tag
BadDeclarationEndNever(tok) == FALSE

\* line 432: `?>` ends a tag that is no declaration
BadDeclarationEnd(tok) == tok.tag # "DECLARATION" /\ c0 = QUESTION

\* line 466: the check of the first character of an attribute name
BadKeyStart(attr) == attr.key = <<>> /\ ~_isAlphabetic(c0)

\* case ParserState.READING_TAG_UNTIL_CLOSE
ScanTag ==
  /\ Dispatch("READING_TAG_UNTIL_CLOSE")
  /\ LET c1 == CharCodeAt(pos + 1)
         skipped == IF c0 = ANGLE_BRACKET_CLOSE THEN 0 ELSE 1
         ended == [token EXCEPT
                     !.type = IF c0 = FORWARD_SLASH THEN "TAG_SELF_CLOSE" ELSE @,
                     !.end = pos + skipped]
         started == IF attribute.start = -1
                    THEN [attribute EXCEPT !.start = pos] ELSE attribute
     IN IF TagEnds(c1)
        THEN IF BadDeclarationEnd(token)
             THEN Throw("ending an arbitrary tag with ?> is not allowed",
                        canSkipWhitespace, token, attribute)
             ELSE Pass(pos + skipped, ColumnAfter + skipped, "NONE", "READING_TAG_NAME",
                       TRUE, _resetToken(pos), ResetAttribute,
                       <<_cloneAndFreezeToken(ended)>>)
        ELSE IF rtState = "READING_TAG_NAME"
        THEN IF _isWhitespace(c0)
             THEN Pass(pos, ColumnAfter, state, "READING_ATTR_NAME", TRUE, token,
                       attribute, <<>>)
             ELSE IF _isValidIdentifier(c0)
             THEN Pass(pos, ColumnAfter, state, rtState, canSkipWhitespace,
                       [token EXCEPT !.content = Append(@, c0)], attribute, <<>>)
             ELSE Throw("invalid character for identifier", canSkipWhitespace, token,
                        attribute)
        ELSE IF rtState = "READING_ATTR_NAME"
        THEN IF c0 = SPACE \/ c1 = EQUAL
             THEN Pass(pos, ColumnAfter, state, "EXPECTING_EQUAL_SIGN", TRUE, token,
                       IF c1 = EQUAL /\ c0 # SPACE
                       THEN [started EXCEPT !.key = Append(@, c0)] ELSE started,
                       <<>>)
             ELSE IF BadKeyStart(attribute)
             THEN Throw("identifier must start with [a-zA-Z]", FALSE, token, started)
             ELSE IF ~_isValidIdentifier(c0)
             THEN Throw("invalid identifier for attribute name", FALSE, token, started)
             ELSE Pass(pos, ColumnAfter, state, rtState, FALSE, token,
                       [started EXCEPT !.key = Append(@, c0)], <<>>)
        ELSE IF rtState = "EXPECTING_EQUAL_SIGN"
        THEN IF c0 = EQUAL
             THEN Pass(pos, ColumnAfter, state, "READING_ATTR_VALUE", TRUE, token,
                       attribute, <<>>)
             ELSE Throw("expected =", canSkipWhitespace, token, attribute)
        ELSE \* READING_ATTR_VALUE
             IF attribute.term_c = 0
             THEN IF c0 # DOUBLE_QUOTE /\ c0 # SINGLE_QUOTE
                  THEN Throw("expected value to start with either of DOUBLE_QUOTE or SINGLE_QUOTE",
                             FALSE, token, attribute)
                  ELSE Pass(pos, ColumnAfter, state, rtState, FALSE, token,
                            [attribute EXCEPT !.term_c = c0], <<>>)
             ELSE IF Escapes(c1, attribute)
             THEN Pass(pos + 1, ColumnAfter + 1, state, rtState, FALSE, token,
                       [attribute EXCEPT !.value = Append(@, c1)], <<>>)
             ELSE IF c0 = attribute.term_c
             THEN Pass(pos, ColumnAfter, state, "READING_ATTR_NAME", TRUE,
                       PushAttribute(token, [attribute EXCEPT !.end = pos]),
                       ResetAttribute, <<>>)
             ELSE Pass(pos, ColumnAfter, state, rtState, FALSE, token,
                       [attribute EXCEPT !.value = Append(@, c0)], <<>>)

\* A tokenizer that yields whatever token is pending at the end of the input
PendingIsAnything(tok) == TRUE

\* line 511: whether the pending token is yielded at the end of the input
PendingIsText(tok) == tok.type = "TEXT"

\* lines 509-513: the loop is over
EndOfInput ==
  /\ pc = "scan" /\ Pulled /\ pos >= Len(xml)
  /\ IF state = "NONE"
     THEN pc' = "done" /\ UNCHANGED <<error, out>>
     ELSE IF PendingIsText(token)
     THEN pc' = "done" /\ out' = Append(out, _cloneAndFreezeToken(token)) /\ UNCHANGED error
     ELSE pc' = "failed" /\ error' = "Unexpected end of stream" /\ UNCHANGED out
  /\ UNCHANGED <<pos, line, column, state, rtState, canSkipWhitespace, token,
                 attribute, entity_bytes, ei>>
  /\ UNCHANGED <<xml, canSkipStartingWhitespace, consumer, buildVars, walkVars>>

\* How far past pos the coming step of the generator looks the input up:
\* xml.charCodeAt(pos) always, pos + 1 for c1, the compared code units of
\* _sliceEqualsStr, and pos + ei in entity_loop.
ReadAhead ==
  IF pc = "entity" THEN ei
  ELSE IF ~InLoop \/ c0 = 0 \/ c0 = NaN \/ (canSkipWhitespace /\ _isWhitespace(c0)) THEN 0
  ELSE IF state = "NONE"
  THEN IF c0 # ANGLE_BRACKET_OPEN THEN 0
       ELSE LET c1 == CharCodeAt(pos + 1)
                cdata == Str(<<"!", "[", "C", "D", "A", "T", "A", "[">>)
                comment == Str(<<"!", "-", "-">>)
            IN IF c1 = QUESTION \/ c1 = FORWARD_SLASH \/ _isAlphabetic(c1) THEN 1
               ELSE IF _sliceEqualsStr(cdata, pos + 1) THEN Len(cdata)
               ELSE IF Compared(cdata, pos + 1) > Compared(comment, pos + 1)
                    THEN Compared(cdata, pos + 1)
                    ELSE Compared(comment, pos + 1)
  ELSE IF state = "READING_COMMENT"
  THEN IF c0 = HYPHEN THEN Compared(Str(<<"-", "-", ">">>), pos) - 1 ELSE 0
  ELSE IF state = "READING_CDATA"
  THEN IF c0 = SQUARE_BRACKET_CLOSE THEN Compared(Str(<<"]", "]", ">">>), pos) - 1 ELSE 0
  ELSE IF state = "READING_TEXT_NODE" THEN 0
  ELSE 1

(***************************************************************************)
(* buildXmlTree.  A call is a frame: the parentTagName it was given, the   *)
(* nodes it has collected, and (for a recursive call) the element whose    *)
(* `children` it computes.  One action is one pass of tokens_loop.         *)
(***************************************************************************)
Frame(parentTagName, elem) == [parentTagName |-> parentTagName, nodes |-> <<>>, elem |-> elem]

Top == bstack[Len(bstack)]

\* The token tokens.next() hands over
NextToken == out[taken + 1]

HasNext == consumer = "build" /\ bpc = "pulling" /\ taken < Len(out)

\* lines 537-540
LeafNode(tok) == [type |-> tok.tag, content |-> getContentAsStr(tok.content)]

\* lines 545-550, with the value `children` gets
ElementNode(tok, children) ==
  [type |-> tok.tag,
   tagName |-> getContentAsStr(tok.content),
   attrMap |-> IF tok.attributes # None
               THEN Some(getAttributesAsMap(tok.attributes[1])) ELSE None,
   children |-> children]

\* A builder that leaves `children` out for declarations only
ChildrenOmittedForDeclarations(tok) == tok.tag = "DECLARATION"

\* line 549: whether `children` stays undefined
ChildrenOmitted(tok) == tok.type = "TAG_SELF_CLOSE"

\* A builder that compares only the lengths of the two names
MismatchOfLengths(parentTagName, tagName) ==
  parentTagName # None /\ Len(parentTagName[1]) # Len(tagName)

\* Not what the code does: the name is compared without the test that a
\* closing name is expected at all
MismatchWithoutTypeof(parentTagName, tagName) ==
  parentTagName = None \/ parentTagName[1] # tagName

\* line 530: the check of a closing tag's name
Mismatch(parentTagName, tagName) == parentTagName # None /\ parentTagName[1] # tagName

\* nodes.push(node) in the innermost call
PushNode(stack, node) ==
  [stack EXCEPT ![Len(stack)].nodes = Append(@, node)]

\* Not what the code does: an element gets no children
CompletedEmpty(elem, nodes) == [elem EXCEPT !.children = Some(<<>>)]

\* children: buildXmlTree(tokens, tagName), once the recursive call returned
Completed(elem, nodes) == [elem EXCEPT !.children = Some(nodes)]

\* `return nodes` of the innermost call: the outermost call hands the tree to
\* the caller, a recursive one completes the element of its parent
Return ==
  IF Len(bstack) = 1
  THEN /\ bpc' = "returned"
       /\ tree' = Some(Top.nodes)
       /\ bstack' = <<>>
  ELSE /\ bstack' = PushNode(SubSeq(bstack, 1, Len(bstack) - 1),
                             Completed(Top.elem[1], Top.nodes))
       /\ UNCHANGED <<bpc, tree>>

\* lines 528-533
BuildClose ==
  /\ HasNext
  /\ NextToken.type = "TAG_CLOSE"
  /\ taken' = taken + 1
  /\ IF Mismatch(Top.parentTagName, getContentAsStr(NextToken.content))
     THEN bpc' = "mismatch" /\ UNCHANGED <<bstack, tree>>
     ELSE Return
  /\ UNCHANGED <<xml, canSkipStartingWhitespace, consumer, genVars, walkVars>>

\* lines 536-540
BuildLeaf ==
  /\ HasNext
  /\ NextToken.type # "TAG_CLOSE"
  /\ NextToken.tag \in {"NONE", "CDATA", "COMMENT"}
  /\ taken' = taken + 1
  /\ bstack' = PushNode(bstack, LeafNode(NextToken))
  /\ UNCHANGED <<bpc, tree>>
  /\ UNCHANGED <<xml, canSkipStartingWhitespace, consumer, genVars, walkVars>>

\* lines 543-551: a self-closing token gives a node at once, any other starts
\* the recursive call that collects the children
BuildElement ==
  /\ HasNext
  /\ NextToken.type # "TAG_CLOSE"
  /\ NextToken.tag \in {"ARBITRARY", "DECLARATION"}
  /\ taken' = taken + 1
  /\ IF ChildrenOmitted(NextToken)
     THEN bstack' = PushNode(bstack, ElementNode(NextToken, None))
     ELSE bstack' = Append(bstack, Frame(Some(getContentAsStr(NextToken.content)),
                                         Some(ElementNode(NextToken, None))))
  /\ UNCHANGED <<bpc, tree>>
  /\ UNCHANGED <<xml, canSkipStartingWhitespace, consumer, genVars, walkVars>>

\* line 521: next.done
BuildDone ==
  /\ consumer = "build" /\ bpc = "pulling" /\ taken = Len(out) /\ pc = "done"
  /\ Return
  /\ UNCHANGED taken
  /\ UNCHANGED <<xml, canSkipStartingWhitespace, consumer, genVars, walkVars>>

\* tokens.next() throws what parseXml threw
BuildFailed ==
  /\ consumer = "build" /\ bpc = "pulling" /\ taken = Len(out) /\ pc = "failed"
  /\ bpc' = "failed"
  /\ UNCHANGED <<taken, bstack, tree>>
  /\ UNCHANGED <<xml, canSkipStartingWhitespace, consumer, genVars, walkVars>>

(***************************************************************************)
(* walkXmlNodes.  One action is one pass of its for...of over the tokens;  *)
(* the callback is the caller's, so what it returns is any of the two.     *)
(* Leaving the loop by break or by a throw closes the generator.           *)
(***************************************************************************)
WalkHasNext == consumer = "walk" /\ wpc = "pulling" /\ taken < Len(out)

\* lines 566-570
ParentOf(tok) ==
  [type |-> "ARBITRARY",
   tagName |-> getContentAsStr(tok.content),
   attrMap |-> IF tok.attributes # None
               THEN Some(getAttributesAsMap(tok.attributes[1])) ELSE None]

\* A walker that gives every token with a tag name the element form
WalkedNodeByTag(tok) ==
  IF tok.tag \in {"ARBITRARY", "DECLARATION"} THEN ElementNode(tok, None) ELSE LeafNode(tok)

\* lines 581-593: the node handed to the callback
WalkedNode(tok) ==
  IF tok.type = "TAG_SELF_CLOSE" THEN ElementNode(tok, None) ELSE LeafNode(tok)

\* Array.prototype.join('.') of the names
RECURSIVE JoinNames(_)
JoinNames(names) ==
  IF names = <<>> THEN <<>>
  ELSE IF Len(names) = 1 THEN names[1]
  ELSE names[1] \o <<Ord(".")>> \o JoinNames(Tail(names))

\* A walker that hands over the names innermost first
PathOfInnermostFirst(ps) == JoinNames([i \in 1..Len(ps) |-> ps[Len(ps) + 1 - i].tagName])

\* line 597: parents.map((p) => p.tagName).join('.')
PathOf(ps) == JoinNames([i \in 1..Len(ps) |-> ps[i].tagName])

\* A walker that lets a closing tag pass when no tag is open
WalkMismatchWhenOpen(ps, closedTagName) ==
  ps # <<>> /\ closedTagName # ps[Len(ps)].tagName

\* lines 574-576: parents.pop()?.tagName is undefined on an empty stack
WalkMismatch(ps, closedTagName) ==
  ps = <<>> \/ closedTagName # ps[Len(ps)].tagName

\* The generator is left as it stands but for its end
CloseGenerator ==
  /\ pc' = IF pc \in {"done", "failed"} THEN pc ELSE "closed"
  /\ UNCHANGED <<pos, line, column, state, rtState, canSkipWhitespace, token, attribute,
                 entity_bytes, ei, error, out>>

\* A walker that calls back for every token that is no closing tag
VisitedUnlessClose(tok) == tok.type # "TAG_CLOSE"

\* line 580: whether the pass calls the callback
Visited(tok) == tok.type = "TAG_SELF_CLOSE" \/ tok.type = "TEXT"

\* The arguments of callback(path, node, parents) with the stack ps, and
\* whether the callback returned true
CallWith(ps, tok, returned) ==
  [path |-> PathOf(ps), node |-> WalkedNode(tok), parents |-> ps, returned |-> returned]

\* lines 565-571, and line 580 which the pass goes through after them
WalkOpen ==
  /\ WalkHasNext
  /\ NextToken.type = "TAG_OPEN"
  /\ taken' = taken + 1
  /\ parents' = Append(parents, ParentOf(NextToken))
  /\ calls' = IF Visited(NextToken)
              THEN Append(calls, CallWith(parents', NextToken, FALSE))
              ELSE calls
  /\ UNCHANGED wpc
  /\ UNCHANGED <<xml, canSkipStartingWhitespace, consumer, genVars, bstack, bpc, tree>>

\* lines 573-578
WalkClose ==
  /\ WalkHasNext
  /\ NextToken.type = "TAG_CLOSE"
  /\ taken' = taken + 1
  /\ parents' = IF parents = <<>> THEN <<>> ELSE SubSeq(parents, 1, Len(parents) - 1)
  /\ IF WalkMismatch(parents, getContentAsStr(NextToken.content))
     THEN wpc' = "mismatch" /\ CloseGenerator
     ELSE UNCHANGED <<wpc, genVars>>
  /\ UNCHANGED calls
  /\ UNCHANGED <<xml, canSkipStartingWhitespace, consumer, bstack, bpc, tree>>

\* A walker that goes on after the callback returned true
WalkStopsNever(stop) == FALSE

\* line 597: `if (true === callback(...)) break tokens_loop`
WalkStops(stop) == stop

\* lines 580-598, for a token that is neither an opening nor a closing tag
WalkVisit ==
  /\ WalkHasNext
  /\ NextToken.type \notin {"TAG_OPEN", "TAG_CLOSE"}
  /\ taken' = taken + 1
  /\ IF Visited(NextToken)
     THEN \E stop \in BOOLEAN :
            /\ calls' = Append(calls, CallWith(parents, NextToken, stop))
            /\ IF WalkStops(stop)
               THEN wpc' = "stopped" /\ CloseGenerator
               ELSE UNCHANGED <<wpc, genVars>>
     ELSE UNCHANGED <<calls, wpc, genVars>>
  /\ UNCHANGED parents
  /\ UNCHANGED <<xml, canSkipStartingWhitespace, consumer, bstack, bpc, tree>>

\* the for...of ends when the generator has returned
WalkDone ==
  /\ consumer = "walk" /\ wpc = "pulling" /\ taken = Len(out) /\ pc = "done"
  /\ wpc' = "returned"
  /\ UNCHANGED <<parents, calls>>
  /\ UNCHANGED <<xml, canSkipStartingWhitespace, consumer, genVars, buildVars>>

\* the for...of throws what parseXml threw
WalkFailed ==
  /\ consumer = "walk" /\ wpc = "pulling" /\ taken = Len(out) /\ pc = "failed"
  /\ wpc' = "failed"
  /\ UNCHANGED <<parents, calls>>
  /\ UNCHANGED <<xml, canSkipStartingWhitespace, consumer, genVars, buildVars>>

(***************************************************************************)
(* The inputs.                                                             *)
(***************************************************************************)
\* Documents that, together, take every branch of the model
Corpus ==
  { Str(<<"<", "p", ">", "<", "c", ">", "s", " ", "t", "<", "/", "c", ">", "<", "/", "p", ">">>),
    Str(<<"<", "a", ">", "<", "b", ">", "<", "/", "a", ">">>),
    Str(<<"<", "!", "-", "-", "h", "i", "-", "-", ">", "<", "!", "[", "C", "D", "A", "T", "A", "[",
          "r", "<", "d", "]", "]", ">">>),
    Str(<<"<", "!", "[", "C", "D", "A", "T", "A", "[", "r", "<", "d", "]", "]", ">">>),
    Str(<<"<", "?", "x", " ", "?", ">", " ", "<", "a", " ", "h", "=", "\"", "x", "\"", " ", "t", "=",
          "'", "\\", "'", "'", "/", ">", "&", "a", "m", "p", ";", "&", "#", "6", "5", ";">>),
    Str(<<"<", "?", "x", " ", "?", ">", "<", "a", " ", "?", ">">>),
    Str(<<"<", "!", "-", "-", "-", "-", ">">>),
    Str(<<"<", "!", "[", "C", "D", "A", "T", "A", "[", "]", "]", ">">>),
    Str(<<"x", "&", "n", ";">>),
    Str(<<"x", "&", "l", "t">>),
    <<120, 0>>,
    Str(<<"<", "a", ">", "x">>),
    Str(<<"<", "a">>),
    Str(<<"<", "a", ".", ">">>),
    Str(<<"<", "a", " ", "k", " ", "x">>),
    Str(<<"<", "a", " ", "k", "=", "x">>),
    Str(<<"<", "a", " ", "1", "k", ">">>),
    Str(<<"<", "a", " ", "k", ".", "k", ">">>),
    Str(<<"<", "1", ">">>) }

\* Documents put together from whole tags: an opening tag, a closing tag, a
\* text, a comment or a self-closing tag each
DocFrag(kind, name, text) == [kind |-> kind, name |-> name, text |-> text]

DocFrags ==
  { DocFrag("open", "a", Str(<<"<", "a", ">">>)),
    DocFrag("close", "a", Str(<<"<", "/", "a", ">">>)),
    DocFrag("open", "b", Str(<<"<", "b", ">">>)),
    DocFrag("close", "b", Str(<<"<", "/", "b", ">">>)),
    DocFrag("text", "", Str(<<"x">>)),
    DocFrag("comment", "", Str(<<"<", "!", "-", "-", "c", "-", "-", ">">>)),
    DocFrag("selfclose", "b", Str(<<"<", "b", "/", ">">>)) }

\* How many tags and texts a document is put together from
MaxDocFrags == 4

\* Longer documents: the README's example without its white space, an
\* element that follows a comment, and a declaration before two elements
DocSamples ==
  { << DocFrag("open", "a", Str(<<"<", "a", ">">>)),
       DocFrag("open", "b", Str(<<"<", "b", ">">>)),
       DocFrag("text", "", Str(<<"s", " ", "t">>)),
       DocFrag("close", "b", Str(<<"<", "/", "b", ">">>)),
       DocFrag("close", "a", Str(<<"<", "/", "a", ">">>)) >>,
    << DocFrag("open", "a", Str(<<"<", "a", ">">>)),
       DocFrag("comment", "", Str(<<"<", "!", "-", "-", "c", "-", "-", ">">>)),
       DocFrag("open", "b", Str(<<"<", "b", ">">>)),
       DocFrag("close", "b", Str(<<"<", "/", "b", ">">>)),
       DocFrag("close", "a", Str(<<"<", "/", "a", ">">>)) >>,
    << DocFrag("declaration", "x", Str(<<"<", "?", "x", " ", "?", ">">>)),
       DocFrag("open", "a", Str(<<"<", "a", ">">>)),
       DocFrag("close", "a", Str(<<"<", "/", "a", ">">>)),
       DocFrag("selfclose", "b", Str(<<"<", "b", "/", ">">>)) >> }

DocSeqs == SeqsUpTo(DocFrags, MaxDocFrags) \cup DocSamples

DocText(fs) == Flat([i \in 1..Len(fs) |-> fs[i].text])

\* Every opening tag has a properly nested closing tag of the same name, and
\* there is no stray closing tag; open is the names of the tags open so far
RECURSIVE Balanced(_, _)
Balanced(fs, open) ==
  IF fs = <<>> THEN open = <<>>
  ELSE IF Head(fs).kind = "open" THEN Balanced(Tail(fs), Append(open, Head(fs).name))
  ELSE IF Head(fs).kind = "close"
  THEN /\ open # <<>>
       /\ open[Len(open)] = Head(fs).name
       /\ Balanced(Tail(fs), SubSeq(open, 1, Len(open) - 1))
  ELSE Balanced(Tail(fs), open)

WellFormedDocs == {DocText(fs) : fs \in {f \in DocSeqs : Balanced(f, <<>>)}}

DocInputs == {DocText(fs) : fs \in DocSeqs}

\* A comment immediately followed by a CDATA block
BlockDoc(C, D) ==
  Str(<<"<", "!", "-", "-">>) \o C \o Str(<<"-", "-", ">">>)
  \o Str(<<"<", "!", "[", "C", "D", "A", "T", "A", "[">>) \o D \o Str(<<"]", "]", ">">>)

CommentBodies == {Str(<<"h", "i">>), Str(<<"c">>), Str(<<"a", "-", "b">>), Str(<<"x", " ", "y">>)}

CdataBodies == {Str(<<"r", "<", "d">>), Str(<<"d">>), Str(<<"]", ">">>), Str(<<"&">>)}

BlockDocs == {BlockDoc(C, D) : C \in CommentBodies, D \in CdataBodies}

\* A tag closed with `?>`: what precedes it, how it opens, and what stands
\* between its name and the `?>`
DeclPrefixes == {<<>>, Str(<<"<", "?", "x", " ", "?", ">">>), Str(<<"<", "p", ">">>)}

DeclOpeners == {Str(<<"<", "?", "x">>), Str(<<"<", "?", "x", "m", "l">>), Str(<<"<", "a">>),
                Str(<<"<", "/", "a">>)}

DeclMiddles == {<<>>, Str(<<" ">>), Str(<<" ", "k", "=", "\"", "v", "\"">>),
                Str(<<" ", "k", "=", "'", "?", ">", "'", " ">>)}

DeclDoc(prefix, opener, middle) == prefix \o opener \o middle \o Str(<<"?", ">">>)

DeclCases ==
  {[prefix |-> pre, opener |-> op, doc |-> DeclDoc(pre, op, mid)] :
     pre \in DeclPrefixes, op \in DeclOpeners, mid \in DeclMiddles}

DeclDocs == {c.doc : c \in DeclCases}

\* A text run put together from entity references and plain characters
EntityFrags ==
  { Str(<<"&", "a", "m", "p", ";">>),
    Str(<<"&", "l", "t", ";">>),
    Str(<<"&", "g", "t", ";">>),
    Str(<<"&", "q", "u", "o", "t", ";">>),
    Str(<<"&", "a", "p", "o", "s", ";">>),
    Str(<<"&", "#", "6", "5", ";">>),
    Str(<<"&", "#", "9", "6", "0", ";">>),
    Str(<<"x">>) }

\* How many references and characters a text run is put together from
MaxEntityFrags == 3

EntitySeqs == SeqsUpTo(EntityFrags, MaxEntityFrags) \ {<<>>}

\* What stands before the text run
EntityPrefixes == {<<>>, Str(<<"<", "a", ">">>)}

EntityDoc(prefix, fs) == prefix \o Flat(fs)

EntityDocs == {EntityDoc(pre, fs) : pre \in EntityPrefixes, fs \in EntitySeqs}

\* An attribute as it is written: the white space before it, its key, the
\* quote character and the text between the quotes
AttrSample(sep, key, quote, written) ==
  [sep |-> sep, key |-> key, quote |-> quote, written |-> written]

AttrSamples ==
  { AttrSample(Str(<<" ">>), Str(<<"h", "d">>), DOUBLE_QUOTE, Str(<<"x">>)),
    AttrSample(Str(<<" ">>), Str(<<"t">>), SINGLE_QUOTE, Str(<<"y">>)),
    AttrSample(Str(<<" ">>), Str(<<"k">>), DOUBLE_QUOTE, <<>>),
    AttrSample(Str(<<" ", " ">>), Str(<<"k">>), SINGLE_QUOTE, Str(<<"\"">>)),
    AttrSample(Str(<<" ">>), Str(<<"k">>), SINGLE_QUOTE, Str(<<"y", " ", "z">>)),
    AttrSample(Str(<<" ">>), Str(<<"k">>), DOUBLE_QUOTE, Str(<<"/", ">">>)),
    AttrSample(Str(<<" ">>), Str(<<"k">>), DOUBLE_QUOTE, Str(<<"x", "\\", "y">>)),
    AttrSample(Str(<<" ">>), Str(<<"k">>), DOUBLE_QUOTE, Str(<<"\\", "\"">>)),
    AttrSample(Str(<<" ">>), Str(<<"k">>), SINGLE_QUOTE, Str(<<"x", "\\", "'", "y">>)),
    AttrSample(Str(<<" ">>), Str(<<"k">>), DOUBLE_QUOTE, Str(<<"\\">>)) }

\* How many attributes a tag is written with
MaxAttrs == 2

AttrSeqs == SeqsUpTo(AttrSamples, MaxAttrs) \ {<<>>}

AttrText(a) == a.sep \o a.key \o <<EQUAL>> \o <<a.quote>> \o a.written \o <<a.quote>>

AttrDoc(as) == Str(<<"<", "a">>) \o Flat([i \in 1..Len(as) |-> AttrText(as[i])]) \o Str(<<">">>)

AttrCases == {[attrs |-> as, doc |-> AttrDoc(as)] : as \in AttrSeqs}

AttrDocs == {c.doc : c \in AttrCases}

\* A tag with one attribute whose key is written directly before `=`
KeySamples ==
  {Str(<<"k">>), Str(<<"1">>), Str(<<"k", "k">>), Str(<<"1", "k">>), Str(<<"k", "1">>),
   Str(<<"=">>), Str(<<"-">>), Str(<<"k", "-">>), Str(<<":">>)}

KeyDoc(key) == Str(<<"<", "a", " ">>) \o key \o Str(<<"=", "\"", "v", "\"", ">">>)

KeyDocs == {KeyDoc(key) : key \in KeySamples}

\* An input that ends where a construct may still be open: what stands
\* before, and the last, possibly unterminated, construct with its kind
TailLeads == {<<>>, Str(<<"<", "a", ">">>), Str(<<"<", "!", "-", "-", "c", "-", "-", ">", " ">>)}

TailSample(kind, text) == [kind |-> kind, text |-> text]

TailSamples ==
  { TailSample("none", <<>>),
    TailSample("text", Str(<<"x", "y">>)),
    TailSample("text", Str(<<"x", " ">>)),
    TailSample("text", Str(<<"&", "l", "t", ";">>)),
    TailSample("tag", Str(<<"<", "b">>)),
    TailSample("tag", Str(<<"<", "/", "b">>)),
    TailSample("tag", Str(<<"<", "?", "x", " ">>)),
    TailSample("tag", Str(<<"<", "b", " ", "k">>)),
    TailSample("tag", Str(<<"<", "b", " ", "k", "=", "\"", "v">>)),
    TailSample("tag", Str(<<"<", "b", " ", "k", "=", "\"", "v", "\"", " ">>)),
    TailSample("comment", Str(<<"<", "!", "-", "-", "c", "-", "-">>)),
    TailSample("comment", Str(<<"<", "!", "-", "-">>)),
    TailSample("cdata", Str(<<"<", "!", "[", "C", "D", "A", "T", "A", "[", "d", "]", "]">>)) }

TailCases ==
  {[lead |-> lead, kind |-> t.kind, text |-> t.text, doc |-> lead \o t.text] :
     lead \in TailLeads, t \in TailSamples}

TailDocs == {c.doc : c \in TailCases}

\* Inputs that hold the code point 0: in text, in a name, in a value, in a
\* comment and a CDATA block, right after their closers, in entity references
ZeroDocs ==
  { <<0>>,
    Str(<<"x">>) \o <<0>> \o Str(<<"y">>),
    Str(<<"<", "a">>) \o <<0>> \o Str(<<">">>),
    Str(<<"<", "a", " ", "k", "=", "\"">>) \o <<0>> \o Str(<<"\"", ">">>),
    Str(<<"<", "!", "-", "-">>) \o <<0>> \o Str(<<"-", "-", ">">>),
    Str(<<"<", "!", "[", "C", "D", "A", "T", "A", "[">>) \o <<0>> \o Str(<<"]", "]", ">">>),
    Str(<<"<", "!", "-", "-", "c", "-", "-", ">">>) \o <<0>>,
    Str(<<"<", "!", "[", "C", "D", "A", "T", "A", "[", "d", "]", "]", ">">>) \o <<0>> \o Str(<<"x">>),
    Str(<<"&", "#", "6", "5">>) \o <<0>> \o Str(<<";">>),
    Str(<<"&", "a">>) \o <<0>> \o Str(<<"m", "p", ";">>),
    Str(<<"<", "a", ">">>) \o <<0>> }

\* Text runs without `<`, `&` and zero, with whitespace at any place; at the
\* start of the input or after a tag, up to the end of the input or a tag.
MaxRun == 3

RunUnits == {Ord("x"), SPACE, LF, ANGLE_BRACKET_CLOSE}

Runs == SeqsUpTo(RunUnits, MaxRun) \ {<<>>}

RunLeads == {<<>>, Str(<<"<", "a", ">">>)}

RunTails == {<<>>, Str(<<"<", "b", "/", ">">>)}

RunDoc(c) == c.lead \o c.run \o c.tail

RunCases == [lead : RunLeads, run : Runs, tail : RunTails]

RunDocs == {RunDoc(c) : c \in RunCases}

\* Character references written with leading zeros, closed by their `;`
LongEntityDocs ==
  { Str(<<"&", "#", "0", "0", "0", "0", "0", "6", "5", ";">>),
    Str(<<"x", "&", "#", "0", "0", "0", "0", "0", "0", "0", "6", "5", ";", "y">>) }

\* Inputs that start with a run of whitespace: the run, and what follows it,
\* given with the tokens it is made of (type, tag, content, and the key and
\* value of each attribute)
MaxLead == 2

LeadRuns == SeqsUpTo({SPACE, LF, TAB, CR}, MaxLead)

Made(type, tag, content, attrs) ==
  [type |-> type, tag |-> tag, content |-> content, attrs |-> attrs]

LeadBody(doc, tokens) == [doc |-> doc, tokens |-> tokens]

LeadBodies ==
  { LeadBody(Str(<<"x", " ", "y">>),
             <<Made("TEXT", "NONE", Str(<<"x", " ", "y">>), <<>>)>>),
    LeadBody(Str(<<"<", "a", " ", "k", "=", "\"", "v", "\"", ">", " ", "x", "<", "/", "a", ">">>),
             <<Made("TAG_OPEN", "ARBITRARY", Str(<<"a">>), << <<Str(<<"k">>), Str(<<"v">>)>> >>),
               Made("TEXT", "NONE", Str(<<"x">>), <<>>),
               Made("TAG_CLOSE", "ARBITRARY", Str(<<"a">>), <<>>)>>),
    LeadBody(Str(<<"<", "b", "/", ">">>),
             <<Made("TAG_SELF_CLOSE", "ARBITRARY", Str(<<"b">>), <<>>)>>),
    LeadBody(Str(<<"<", "?", "x", " ", "?", ">">>),
             <<Made("TAG_SELF_CLOSE", "DECLARATION", Str(<<"x">>), <<>>)>>),
    LeadBody(Str(<<"<", "!", "-", "-", "c", "-", "-", ">">>),
             <<Made("TAG_SELF_CLOSE", "COMMENT", Str(<<"c">>), <<>>)>>),
    LeadBody(Str(<<"x", "<", "b", "/", ">">>),
             <<Made("TEXT", "NONE", Str(<<"x">>), <<>>),
               Made("TAG_SELF_CLOSE", "ARBITRARY", Str(<<"b">>), <<>>)>>) }

LeadCases == [lead : LeadRuns, body : LeadBodies]

LeadDoc(c) == c.lead \o c.body.doc

LeadDocs == {LeadDoc(c) : c \in LeadCases}

\* A comment or a CDATA block alone, with a body of markup characters, parts
\* of entity references, quotes, whitespace and parts of the closers, in
\* which the closer is first met where the block ends
MaxBody == 2

BodyUnits ==
  {ANGLE_BRACKET_OPEN, ANGLE_BRACKET_CLOSE, AMPERSAND, SEMICOLON, DOUBLE_QUOTE, SPACE, LF,
   HYPHEN, SQUARE_BRACKET_CLOSE}

RawSamples ==
  { Str(<<"&", "l", "t", ";">>), Str(<<" ", "<", "a", ">", " ">>), Str(<<"&", "#", "6", "5", ";">>),
    Str(<<"'", "\\", "\"">>) }

RawKinds == {"COMMENT", "CDATA"}

RawOpener(kind) ==
  IF kind = "COMMENT" THEN Str(<<"<", "!", "-", "-">>)
  ELSE Str(<<"<", "!", "[", "C", "D", "A", "T", "A", "[">>)

RawCloser(kind) ==
  IF kind = "COMMENT" THEN Str(<<"-", "-", ">">>) ELSE Str(<<"]", "]", ">">>)

\* The closer is in s at the 1-based place i
CloserAt(s, closer, i) == i + 2 <= Len(s) /\ SubSeq(s, i, i + 2) = closer

RawBodies(kind) ==
  {body \in SeqsUpTo(BodyUnits, MaxBody) \cup RawSamples :
     \A i \in 1..Len(body) : ~CloserAt(body \o RawCloser(kind), RawCloser(kind), i)}

RawDoc(kind, body) == RawOpener(kind) \o body \o RawCloser(kind)

RawCases ==
  UNION {{[kind |-> kind, body |-> body, doc |-> RawDoc(kind, body)] : body \in RawBodies(kind)} :
           kind \in RawKinds}

RawDocs == {c.doc : c \in RawCases}

\* One tag with one attribute: how the tag opens (with the type it opens
\* as), the quote, the value written between the quotes, and how the tag ends
EndOpeners ==
  { [text |-> Str(<<"<", "a">>), type |-> "TAG_OPEN", tag |-> "ARBITRARY"],
    [text |-> Str(<<"<", "/", "a">>), type |-> "TAG_CLOSE", tag |-> "ARBITRARY"],
    [text |-> Str(<<"<", "?", "x">>), type |-> "TAG_SELF_CLOSE", tag |-> "DECLARATION"] }

EndValues == {Str(<<">">>), Str(<<"/", ">">>), Str(<<"?", ">">>), Str(<<"x", ">", "y">>), Str(<<"x">>)}

EndQuotes == {DOUBLE_QUOTE, SINGLE_QUOTE}

Enders == {Str(<<">">>), Str(<<"/", ">">>), Str(<<"?", ">">>), Str(<<" ", ">">>), Str(<<" ", "/", ">">>)}

EndDoc(opener, quote, value, ender) ==
  opener.text \o Str(<<" ", "k", "=">>) \o <<quote>> \o value \o <<quote>> \o ender

EndCases ==
  {[opener |-> o, quote |-> q, value |-> v, ender |-> e, doc |-> EndDoc(o, q, v, e)] :
     o \in EndOpeners, q \in EndQuotes, v \in EndValues, e \in Enders}

EndDocs == {c.doc : c \in EndCases}

\* The tag `<a k=` followed by a quote, then by any text of backslashes,
\* quotes of both kinds and letters, then by `>`
MaxValue == 4

ValueUnits == {BACK_SLASH, DOUBLE_QUOTE, SINGLE_QUOTE, Ord("x")}

EscDoc(quote, rest) == Str(<<"<", "a", " ", "k", "=">>) \o <<quote>> \o rest \o Str(<<">">>)

EscCases ==
  {[quote |-> q, rest |-> r, doc |-> EscDoc(q, r)] :
     q \in {DOUBLE_QUOTE, SINGLE_QUOTE}, r \in SeqsUpTo(ValueUnits, MaxValue)}

EscDocs == {c.doc : c \in EscCases}

\* Tags with an attribute name that no `=` follows
NameOnlyDocs ==
  { Str(<<"<", "a", " ", "b", ">">>),
    Str(<<"<", "a", " ", "b", " ", ">">>),
    Str(<<"<", "a", " ", "b", "/", ">">>),
    Str(<<"<", "a", " ", "b", "c", ">">>),
    Str(<<"<", "a", " ", "b", " ", "c", "=", "\"", "v", "\"", ">">>),
    Str(<<"<", "a", " ", "k", "=", "\"", "v", "\"", " ", "b", ">">>),
    Str(<<"<", "?", "x", " ", "b", "?", ">">>) }

\* A tag, a comment or a CDATA block, then a gap of whitespace, then a text
\* that starts with a letter (or none), then the end of the input or a tag
MaxGap == 2

GapLeads ==
  { [text |-> Str(<<"<", "a", ">">>), closer |-> FALSE],
    [text |-> Str(<<"<", "a", "/", ">">>), closer |-> FALSE],
    [text |-> Str(<<"<", "/", "a", ">">>), closer |-> FALSE],
    [text |-> Str(<<"<", "?", "x", " ", "?", ">">>), closer |-> FALSE],
    [text |-> Str(<<"<", "!", "-", "-", "c", "-", "-", ">">>), closer |-> TRUE],
    [text |-> Str(<<"<", "!", "[", "C", "D", "A", "T", "A", "[", "d", "]", "]", ">">>),
     closer |-> TRUE] }

Gaps == SeqsUpTo({SPACE, TAB, LF}, MaxGap)

GapTexts ==
  { <<>>, Str(<<"x">>), Str(<<"x", " ", "y">>), Str(<<"x", " ">>), <<Ord("x"), LF, TAB>>,
    <<Ord("x"), Ord("y"), SPACE, SPACE>> }

GapTails == {<<>>, Str(<<"<", "b", ">">>)}

GapCases ==
  {[lead |-> l, gap |-> g, text |-> t, tail |-> e, doc |-> l.text \o g \o t \o e] :
     l \in GapLeads, g \in Gaps, t \in GapTexts, e \in GapTails}

GapDocs == {c.doc : c \in GapCases}

\* Inputs that end while elements are open, every closing tag in them
\* matching
OpenDocs ==
  { Str(<<"<", "a", ">">>),
    Str(<<"<", "a", ">", "x">>),
    Str(<<"<", "a", ">", "<", "b", ">", "x">>),
    Str(<<"<", "a", ">", "x", "<", "b", "/", ">">>),
    Str(<<"<", "a", ">", "<", "b", ">", "<", "/", "b", ">", "y">>),
    Str(<<"<", "a", ">", "<", "b", ">", "x", "<", "c", ">">>),
    Str(<<"y", "<", "a", " ", "k", "=", "\"", "v", "\"", ">", "<", "b", ">", "x", "<", "/", "b", ">",
          "<", "c", ">", "z">>),
    Str(<<"<", "a", ">", "<", "/", "a", ">", "<", "b", ">">>) }

AllConsumers == {"drain", "build", "walk"}

InitOn(Inputs, Consumers) ==
  /\ xml \in Inputs
  /\ consumer \in Consumers
  /\ canSkipStartingWhitespace \in BOOLEAN
  /\ canSkipWhitespace = StartingSkip(canSkipStartingWhitespace)
  /\ pos = 0 /\ line = 1 /\ column = 1
  /\ state = "NONE"
  /\ rtState = "READING_TAG_NAME"
  /\ token = InitialToken
  /\ attribute = InitialAttribute
  /\ entity_bytes = <<>> /\ ei = 0
  /\ pc = "scan" /\ error = ""
  /\ out = <<>>
  /\ taken = 0
  /\ bstack = IF consumer = "build" THEN <<Frame(None, None)>> ELSE <<>>
  /\ bpc = IF consumer = "build" THEN "pulling" ELSE "idle"
  /\ tree = None
  /\ wpc = IF consumer = "walk" THEN "pulling" ELSE "idle"
  /\ parents = <<>>
  /\ calls = <<>>

Init == InitOn(Corpus \cup BlockDocs \cup DeclDocs \cup KeyDocs \cup TailDocs \cup ZeroDocs
                 \cup LongEntityDocs \cup NameOnlyDocs,
               AllConsumers)

Next ==
  \/ ZeroCodePoint
  \/ SkipWhitespace
  \/ ScanNone
  \/ ScanComment
  \/ ScanCdata
  \/ ScanText
  \/ EntityLoop
  \/ ScanTag
  \/ EndOfInput
  \/ BuildClose
  \/ BuildLeaf
  \/ BuildElement
  \/ BuildDone
  \/ BuildFailed
  \/ WalkOpen
  \/ WalkClose
  \/ WalkVisit
  \/ WalkDone
  \/ WalkFailed

Spec == Init /\ [][Next]_vars

\* The drain of a generator is pulled for as long as it can take a step
SpecFair == Init /\ [][Next]_vars /\ WF_vars(Next)

\* The same steps on the text runs with entity references
InitEntity == InitOn(Corpus, AllConsumers) \/ InitOn(EntityDocs, {"drain"})

SpecEntity == InitEntity /\ [][Next]_vars

\* The same steps on the tags with attributes
InitAttr == InitOn(Corpus, AllConsumers) \/ InitOn(AttrDocs, {"drain"})

SpecAttr == InitAttr /\ [][Next]_vars

\* The same steps with walkXmlNodes on the documents put together from whole
\* tags
InitWalk == InitOn(Corpus, AllConsumers) \/ InitOn(DocInputs, {"walk"})

SpecWalk == InitWalk /\ [][Next]_vars

\* The same steps on the text runs
InitRun == InitOn(Corpus, AllConsumers) \/ InitOn(RunDocs, {"drain"})

SpecRun == InitRun /\ [][Next]_vars

\* The same steps on the inputs that start with whitespace
InitLead == InitOn(Corpus, AllConsumers) \/ InitOn(LeadDocs, {"drain"})

SpecLead == InitLead /\ [][Next]_vars

\* The same steps on the comments and CDATA blocks with raw bodies
InitRaw == InitOn(Corpus, AllConsumers) \/ InitOn(RawDocs, {"drain"})

SpecRaw == InitRaw /\ [][Next]_vars

\* The same steps on the tags with one attribute and each way to end
InitEnd == InitOn(Corpus, AllConsumers) \/ InitOn(EndDocs, {"drain"})

SpecEnd == InitEnd /\ [][Next]_vars

\* The same steps on the tags with backslashes and quotes after `k=`
InitEsc == InitOn(Corpus, AllConsumers) \/ InitOn(EscDocs, {"drain"})

SpecEsc == InitEsc /\ [][Next]_vars

\* The same steps on the gaps of whitespace after a tag or a block
InitGap == InitOn(Corpus, AllConsumers) \/ InitOn(GapDocs, {"drain"})

SpecGap == InitGap /\ [][Next]_vars

\* buildXmlTree and walkXmlNodes on the inputs that end with elements open
InitOpen == InitOn(Corpus, AllConsumers) \/ InitOn(OpenDocs, {"build", "walk"})

SpecOpen == InitOpen /\ [][Next]_vars

\* The same steps on the documents put together from whole tags
InitDoc == InitOn(Corpus, AllConsumers) \/ InitOn(DocInputs, {"build"})

SpecDoc == InitDoc /\ [][Next]_vars

(***************************************************************************)
(* What the claims speak of.                                               *)
(***************************************************************************)
IsElementToken(tok) == tok.tag \in {"ARBITRARY", "DECLARATION"} /\ tok.type # "TAG_CLOSE"

IsLeafNode(node) == "content" \in DOMAIN node

\* The tokens the consumer has received
Taken == SubSeq(out, 1, taken)

\* The stream is exhausted: every token was handed over and no pass is left
\* that could yield another
Exhausted ==
  /\ taken = Len(out)
  /\ pc = "done" \/ (pc = "scan" /\ pos >= Len(xml) /\ state = "NONE")

\* A token as the nesting sees it
TokenMark(tok) ==
  IF tok.type = "TAG_CLOSE" THEN <<"close", getContentAsStr(tok.content)>>
  ELSE IF ~IsElementToken(tok) THEN <<"leaf", tok.tag, getContentAsStr(tok.content)>>
  ELSE IF tok.type = "TAG_SELF_CLOSE" THEN <<"single", tok.tag, getContentAsStr(tok.content)>>
  ELSE <<"open", getContentAsStr(tok.content)>>

\* A tree written back as the marks of the tokens it stands for: an element
\* with children is its opening mark, its children, its closing mark
RECURSIVE Serialize(_)
Serialize(nodes) ==
  IF nodes = <<>> THEN <<>>
  ELSE LET node == Head(nodes)
           marks == IF IsLeafNode(node) THEN << <<"leaf", node.type, node.content>> >>
                    ELSE IF node.children = None
                    THEN << <<"single", node.type, node.tagName>> >>
                    ELSE << <<"open", node.tagName>> >> \o Serialize(node.children[1])
                         \o << <<"close", node.tagName>> >>
       IN marks \o Serialize(Tail(nodes))

\* The names of the elements open after the tokens toks, outermost first
RECURSIVE OpenNames(_, _)
OpenNames(toks, open) ==
  IF toks = <<>> THEN open
  ELSE IF Head(toks).type = "TAG_OPEN"
  THEN OpenNames(Tail(toks), Append(open, getContentAsStr(Head(toks).content)))
  ELSE IF Head(toks).type = "TAG_CLOSE" /\ open # <<>>
  THEN OpenNames(Tail(toks), SubSeq(open, 1, Len(open) - 1))
  ELSE OpenNames(Tail(toks), open)

\* The element nodes of a tree in document order, each as its name and
\* whether it has a `children` sequence
RECURSIVE ElementShapes(_)
ElementShapes(nodes) ==
  IF nodes = <<>> THEN <<>>
  ELSE LET node == Head(nodes)
           shapes == IF IsLeafNode(node) THEN <<>>
                     ELSE IF node.children = None THEN << <<node.tagName, FALSE>> >>
                     ELSE << <<node.tagName, TRUE>> >> \o ElementShapes(node.children[1])
       IN shapes \o ElementShapes(Tail(nodes))

\* The element tokens among toks in order, each as its name and whether its
\* type is not TAG_SELF_CLOSE
RECURSIVE TokenShapes(_)
TokenShapes(toks) ==
  IF toks = <<>> THEN <<>>
  ELSE (IF IsElementToken(Head(toks))
        THEN << <<getContentAsStr(Head(toks).content), Head(toks).type # "TAG_SELF_CLOSE">> >>
        ELSE <<>>) \o TokenShapes(Tail(toks))

\* C1: for every well-formed input, buildXmlTree at the root never raises a
\* tag-mismatch error and returns only once the token stream is exhausted.
C1_WellFormedBuildsWhole ==
  (consumer = "build" /\ xml \in WellFormedDocs) =>
     /\ bpc # "mismatch"
     /\ bpc = "returned" => Exhausted

\* C2: for well-formed input the tree buildXmlTree returns mirrors the tag
\* nesting: written back as opening mark, children, closing mark it is the
\* token stream, so the children of an element are the nodes of the tokens
\* between its TAG_OPEN and its matching TAG_CLOSE and the root list is the
\* depth-zero nodes.
C2_TreeMirrorsNesting ==
  (consumer = "build" /\ xml \in WellFormedDocs /\ bpc = "returned") =>
     Serialize(tree[1]) = [i \in 1..Len(out) |-> TokenMark(out[i])]

\* C3: when buildXmlTree is inside an open element and pulls a TAG_CLOSE
\* token whose name differs from the name of the innermost open element, it
\* fails with a tag-mismatch error and returns no tree.
C3_MismatchedCloseFails ==
  (/\ consumer = "build" /\ taken > 0
   /\ out[taken].type = "TAG_CLOSE"
   /\ LET open == OpenNames(SubSeq(out, 1, taken - 1), <<>>)
      IN open # <<>> /\ open[Len(open)] # getContentAsStr(out[taken].content))
  => bpc = "mismatch" /\ tree = None

\* C3 witness: `<a><b></a>` has been built up to the closing tag </a>, which
\* met the open element b.
C3_Witness ==
  /\ xml = Str(<<"<", "a", ">", "<", "b", ">", "<", "/", "a", ">">>)
  /\ bpc = "mismatch"
  /\ taken = 3

\* C4: in every tree buildXmlTree returns, an element node has a `children`
\* sequence if and only if the type of its token is not TAG_SELF_CLOSE: the
\* element nodes in document order are the element tokens in stream order,
\* children present exactly for those not self-closing.
C4_ChildrenIffNotSelfClosing ==
  bpc = "returned" => ElementShapes(tree[1]) = TokenShapes(Taken)

\* C4 witness: a tree was returned that holds `<a></a>` as an element with the
\* empty sequence of children, a self-closed `<b/>` and a declaration `<?x ?>`
\* without children.
C4_Witness ==
  /\ bpc = "returned"
  /\ \E i, j, k \in 1..Len(tree[1]) :
       /\ ~IsLeafNode(tree[1][i]) /\ tree[1][i].children = Some(<<>>)
       /\ ~IsLeafNode(tree[1][j]) /\ tree[1][j].type = "ARBITRARY"
       /\ tree[1][j].children = None
       /\ ~IsLeafNode(tree[1][k]) /\ tree[1][k].type = "DECLARATION"
       /\ tree[1][k].children = None

\* parseXml has returned or thrown
Ended == pc \in {"done", "failed"}

\* C5: for a comment body C without `-->` and a CDATA body D without `]]>`,
\* parseXml on `<!--C--><![CDATA[D]]>` yields exactly two tokens: a COMMENT
\* token with content C, then a CDATA token with content D.
C5_CommentThenCdata ==
  \A C \in CommentBodies, D \in CdataBodies :
    (consumer = "drain" /\ xml = BlockDoc(C, D) /\ Ended) =>
       /\ pc = "done"
       /\ Len(out) = 2
       /\ out[1].tag = "COMMENT" /\ out[1].content = C
       /\ out[2].tag = "CDATA" /\ out[2].content = D

\* The code point an entity reference stands for, as the claim gives it: five
\* names, and `#` before the decimal digits of the code point
RECURSIVE DecimalValue(_)
DecimalValue(digits) ==
  IF digits = <<>> THEN 0
  ELSE 10 * DecimalValue(SubSeq(digits, 1, Len(digits) - 1)) + (digits[Len(digits)] - Ord("0"))

ClaimedEntity(name) ==
  CASE name = Str(<<"a", "m", "p">>) -> Ord("&")
    [] name = Str(<<"l", "t">>) -> Ord("<")
    [] name = Str(<<"g", "t">>) -> Ord(">")
    [] name = Str(<<"q", "u", "o", "t">>) -> Ord("\"")
    [] name = Str(<<"a", "p", "o", "s">>) -> Ord("'")
    [] OTHER -> DecimalValue(Tail(name))

\* The first index at or after i where s holds c
RECURSIVE IndexOf(_, _, _)
IndexOf(s, c, i) == IF i > Len(s) \/ s[i] = c THEN i ELSE IndexOf(s, c, i + 1)

\* A text run with every `&name;` replaced by the one code point it stands for
RECURSIVE ClaimedText(_)
ClaimedText(s) ==
  IF s = <<>> THEN <<>>
  ELSE IF Head(s) = AMPERSAND
  THEN LET semi == IndexOf(s, SEMICOLON, 2)
       IN <<ClaimedEntity(SubSeq(s, 2, semi - 1))>> \o ClaimedText(SubSeq(s, semi + 1, Len(s)))
  ELSE <<Head(s)>> \o ClaimedText(Tail(s))

\* C6: in a text run every entity reference `&name;` gives exactly one code
\* point of the TEXT token's content: amp, lt, gt, quot, apos give & < > " '
\* and #NNN gives the code point of decimal value NNN, also when the
\* reference is the first character of the run.
C6_EntitiesDecoded ==
  (consumer = "drain" /\ xml \in EntityDocs /\ Ended) =>
     LET tagged == xml[1] = ANGLE_BRACKET_OPEN
         run == IF tagged THEN SubSeq(xml, 4, Len(xml)) ELSE xml
     IN /\ pc = "done"
        /\ Len(out) = IF tagged THEN 2 ELSE 1
        /\ out[Len(out)].type = "TEXT"
        /\ out[Len(out)].content = ClaimedText(run)

\* C6 witness: `&apos;&#65;x` at the very start of the input and `&lt;&#960;`
\* right after a tag have been read to the end.
C6_Witness ==
  /\ pc = "done"
  /\ \/ /\ xml = Str(<<"&", "a", "p", "o", "s", ";", "&", "#", "6", "5", ";", "x">>)
        /\ out[1].content = <<39, 65, 120>>
     \/ /\ xml = Str(<<"<", "a", ">", "&", "l", "t", ";", "&", "#", "9", "6", "0", ";">>)
        /\ Len(out) = 2 /\ out[2].content = <<60, 960>>

\* Where the value that starts at s[i] ends: the first quote character q that
\* no backslash escapes (past the end of s if there is none)
RECURSIVE ValueEnd(_, _, _)
ValueEnd(s, q, i) ==
  IF i > Len(s) THEN i
  ELSE IF s[i] = BACK_SLASH /\ i < Len(s) /\ s[i + 1] = q THEN ValueEnd(s, q, i + 2)
  ELSE IF s[i] = q THEN i
  ELSE ValueEnd(s, q, i + 1)

\* The quote written after the value is the one that ends it
EndsAtItsQuote(a) ==
  ValueEnd(a.written \o <<a.quote>>, a.quote, 1) = Len(a.written) + 1

\* The text between the quotes with every backslash-quote pair read as the
\* quote alone
RECURSIVE Unescape(_, _)
Unescape(s, q) ==
  IF s = <<>> THEN <<>>
  ELSE IF Head(s) = BACK_SLASH /\ Len(s) > 1 /\ s[2] = q
  THEN <<q>> \o Unescape(SubSeq(s, 3, Len(s)), q)
  ELSE <<Head(s)>> \o Unescape(Tail(s), q)

\* The key, value and term_c of each attribute, in order
AttributeView(attributes) ==
  [i \in 1..Len(attributes) |->
     [key |-> attributes[i].key, value |-> attributes[i].value,
      term_c |-> attributes[i].term_c]]

\* parseXml has yielded the one opening tag, with the attributes expected
OneTagWith(expected) ==
  /\ pc = "done"
  /\ Len(out) = 1
  /\ out[1].type = "TAG_OPEN"
  /\ out[1].attributes # None
  /\ AttributeView(out[1].attributes[1]) = expected

\* C7 as the specification states it: for an opening tag with n >= 1
\* attributes key="value" or key='value' separated by white space, parseXml
\* yields one token whose attributes are n entries in source order, each with
\* the key as written, the value as written between the quotes and the quote
\* character as term_c.
C7_ValuesAsWritten ==
  \A c \in AttrCases :
    (consumer = "drain" /\ xml = c.doc /\ Ended) =>
       OneTagWith([i \in 1..Len(c.attrs) |->
                     [key |-> c.attrs[i].key, value |-> c.attrs[i].written,
                      term_c |-> c.attrs[i].quote]])

\* C7, amended: when every value ends at the first of its quote characters
\* that no backslash escapes, parseXml yields one token whose attributes are
\* n entries in source order, each with the key as written, the value as
\* written with every backslash-quote pair read as the quote alone, and the
\* quote character as term_c.
C7_ValuesUnescaped ==
  \A c \in AttrCases :
    (/\ consumer = "drain" /\ xml = c.doc /\ Ended
     /\ \A i \in 1..Len(c.attrs) : EndsAtItsQuote(c.attrs[i]))
    => OneTagWith([i \in 1..Len(c.attrs) |->
                     [key |-> c.attrs[i].key,
                      value |-> Unescape(c.attrs[i].written, c.attrs[i].quote),
                      term_c |-> c.attrs[i].quote]])

\* C7 witness: `<a k="\"" t='y'>` has been read: two attributes, the first
\* with the escaped quote as its value.
C7_Witness ==
  /\ xml = Str(<<"<", "a", " ", "k", "=", "\"", "\\", "\"", "\"", " ", "t", "=", "'", "y", "'",
                 ">">>)
  /\ pc = "done"
  /\ Len(out[1].attributes[1]) = 2
  /\ out[1].attributes[1][1].value = <<DOUBLE_QUOTE>>
  /\ out[1].attributes[1][2].term_c = SINGLE_QUOTE

\* C8: parseXml fails whenever a tag that is no DECLARATION is closed with
\* `?>`, and a DECLARATION tag closed with `?>` is yielded as one token with
\* tag DECLARATION and type TAG_SELF_CLOSE.
C8_QuestionClose ==
  \A c \in DeclCases :
    (consumer = "drain" /\ xml = c.doc /\ Ended) =>
       LET before == IF c.prefix = <<>> THEN 0 ELSE 1
       IN IF c.opener[2] = QUESTION
          THEN /\ pc = "done"
               /\ Len(out) = before + 1
               /\ out[before + 1].tag = "DECLARATION"
               /\ out[before + 1].type = "TAG_SELF_CLOSE"
          ELSE /\ pc = "failed"
               /\ error = "ending an arbitrary tag with ?> is not allowed"
               /\ Len(out) = before

\* C8 witness: `<?x ?><a ?>` has given the declaration and then failed at the
\* `?>` of a, and `<?xml k="v"?>` has been read to the end.
C8_Witness ==
  \/ /\ xml = Str(<<"<", "?", "x", " ", "?", ">", "<", "a", " ", "?", ">">>)
     /\ pc = "failed" /\ Len(out) = 1 /\ out[1].tag = "DECLARATION"
  \/ /\ xml = Str(<<"<", "?", "x", "m", "l", " ", "k", "=", "\"", "v", "\"", "?", ">">>)
     /\ pc = "done" /\ Len(out) = 1 /\ out[1].type = "TAG_SELF_CLOSE"

\* C9: for every finite input, pulling parseXml again and again reaches an
\* end after finitely many scan steps, by normal completion or by a failure.
C9_ScanEnds == (consumer = "drain") => <>Ended

\* C10: every token parseXml yields is fully closed: its end is not -1 and
\* is at least its start, except for a TEXT token with empty content.
C10_TokensClosed ==
  \A i \in 1..Len(out) :
    \/ out[i].end # -1 /\ out[i].end >= out[i].start
    \/ out[i].type = "TEXT" /\ out[i].content = <<>>

\* C11: for every token parseXml yields, start and end are offsets into the
\* input: 0 <= start and end < the length of the input, also for the first
\* token.
C11_OffsetsInInput ==
  \A i \in 1..Len(out) : 0 <= out[i].start /\ out[i].end < Len(xml)

\* A letter A-Z or a-z
IsLetter(codepoint) == codepoint \in 65..90 \/ codepoint \in 97..122

\* C12: every attribute of a token parseXml yields has a non-empty key whose
\* first code point is a letter, also a key of one character and a key
\* written directly before `=`.
C12_KeysStartWithLetter ==
  \A i \in 1..Len(out) :
    out[i].attributes # None =>
      \A j \in 1..Len(out[i].attributes[1]) :
        LET key == out[i].attributes[1][j].key
        IN key # <<>> /\ IsLetter(key[1])

\* C13: what parseXml does at the end of the input follows from the state of
\* the scanner: in NONE it completes without a further token; in a text run
\* it yields the pending TEXT token with the characters read so far and
\* completes; in a tag, a comment or a CDATA block it fails and yields no
\* token for the construct left open.  Stated for the step that meets the end
\* of the input, and for the inputs that end in each kind of construct.
C13_EndOfInputByState ==
  /\ [][(pc = "scan" /\ pos >= Len(xml) /\ pc' \in {"done", "failed"}) =>
          IF state = "NONE" THEN pc' = "done" /\ out' = out
          ELSE IF state = "READING_TEXT_NODE"
          THEN /\ pc' = "done"
               /\ Len(out') = Len(out) + 1
               /\ SubSeq(out', 1, Len(out)) = out
               /\ out'[Len(out')].type = "TEXT"
               /\ out'[Len(out')].content = token.content
          ELSE pc' = "failed" /\ out' = out]_vars
  /\ [](\A c \in TailCases :
          (consumer = "drain" /\ xml = c.doc /\ Ended) =>
             LET before == IF c.lead = <<>> THEN 0 ELSE 1
             IN IF c.kind = "none" THEN pc = "done" /\ Len(out) = before
                ELSE IF c.kind = "text"
                THEN /\ pc = "done"
                     /\ Len(out) = before + 1
                     /\ out[before + 1].type = "TEXT"
                     /\ out[before + 1].content = ClaimedText(c.text)
                ELSE /\ pc = "failed" /\ error = "Unexpected end of stream"
                     /\ Len(out) = before)

\* C13 witness: `<a>xy` has ended in a text run and given the TEXT token xy,
\* and `<a><!--c--` has ended in a comment and failed after the one token.
C13_Witness ==
  \/ /\ xml = Str(<<"<", "a", ">", "x", "y">>)
     /\ pc = "done" /\ Len(out) = 2 /\ out[2].content = Str(<<"x", "y">>)
  \/ /\ xml = Str(<<"<", "a", ">", "<", "!", "-", "-", "c", "-", "-">>)
     /\ pc = "failed" /\ Len(out) = 1

\* C14: if the input holds the code point 0 at an offset below its length,
\* parseXml fails: it never completes normally on such an input, wherever
\* the zero stands.
C14_ZeroNeverCompletes ==
  (consumer = "drain" /\ \E i \in 1..Len(xml) : xml[i] = 0) => pc # "done"

\* The names of the tags on the stack of walkXmlNodes, outermost first
ParentNames == [i \in 1..Len(parents) |-> parents[i].tagName]

\* C15: walkXmlNodes fails with a tag-mismatch error on every TAG_CLOSE token
\* whose name differs from the name on top of the open-tag stack, also when
\* the stack is empty; on a matching TAG_CLOSE it pops exactly one entry and
\* goes on.  The open tags are counted from the tokens, not read off the
\* stack.
C15_WalkClosesChecked ==
  (consumer = "walk" /\ taken > 0 /\ out[taken].type = "TAG_CLOSE") =>
     LET open == OpenNames(SubSeq(out, 1, taken - 1), <<>>)
     IN IF open = <<>> \/ open[Len(open)] # getContentAsStr(out[taken].content)
        THEN wpc = "mismatch"
        ELSE /\ wpc \notin {"mismatch", "stopped"}
             /\ ParentNames = SubSeq(open, 1, Len(open) - 1)

\* C15 witness: of `<a></a></b>` the first closing tag matched and left the
\* stack empty, the second met the empty stack.
C15_Witness ==
  /\ xml = Str(<<"<", "a", ">", "<", "/", "a", ">", "<", "/", "b", ">">>)
  /\ consumer = "walk"
  /\ taken = 3
  /\ wpc = "mismatch"

\* What a call of the callback was made for: the tag of the token and its text
CallMark(call) ==
  <<call.node.type,
    IF IsLeafNode(call.node) THEN call.node.content ELSE call.node.tagName>>

\* The tokens of type TEXT or TAG_SELF_CLOSE among toks, in order, each as
\* its tag and its text
RECURSIVE VisitMarks(_)
VisitMarks(toks) ==
  IF toks = <<>> THEN <<>>
  ELSE (IF Head(toks).type \in {"TEXT", "TAG_SELF_CLOSE"}
        THEN << <<Head(toks).tag, getContentAsStr(Head(toks).content)>> >>
        ELSE <<>>) \o VisitMarks(Tail(toks))

\* C16: until it stops or fails, walkXmlNodes calls the callback exactly once
\* for each token of type TEXT or TAG_SELF_CLOSE it has consumed, in token
\* order, and never for a TAG_OPEN or TAG_CLOSE token; the number of calls is
\* the number of such tokens.
C16_OneCallPerVisitedToken ==
  consumer = "walk" => [i \in 1..Len(calls) |-> CallMark(calls[i])] = VisitMarks(Taken)

\* C16 witness: `<a>x<b/></a>` has been walked to its end with two calls, for
\* the text and for the self-closing tag, and none for <a> and </a>.
C16_Witness ==
  /\ xml = Str(<<"<", "a", ">", "x", "<", "b", "/", ">", "<", "/", "a", ">">>)
  /\ wpc = "returned"
  /\ taken = 4
  /\ Len(calls) = 2

\* The offsets in toks (counted from k) of the tokens of type TEXT or
\* TAG_SELF_CLOSE, in order
RECURSIVE VisitIndexes(_, _)
VisitIndexes(toks, k) ==
  IF toks = <<>> THEN <<>>
  ELSE (IF Head(toks).type \in {"TEXT", "TAG_SELF_CLOSE"} THEN <<k>> ELSE <<>>)
       \o VisitIndexes(Tail(toks), k + 1)

\* The names with a `.` between each two
DotJoin(names) ==
  IF names = <<>> THEN <<>>
  ELSE Tail(Flat([i \in 1..Len(names) |-> <<Ord(".")>> \o names[i]]))

\* C17: at every call of the callback, path is the names of the TAG_OPEN
\* tokens consumed so far and not yet closed by a TAG_CLOSE, outermost first,
\* joined by `.` (the empty string when no tag is open), and parents lists
\* the same open tags in the same order.
C17_PathIsOpenTags ==
  consumer = "walk" =>
    LET at == VisitIndexes(Taken, 1)
    IN \A i \in 1..Len(calls) :
         LET open == OpenNames(SubSeq(out, 1, at[i] - 1), <<>>)
         IN /\ calls[i].path = DotJoin(open)
            /\ [j \in 1..Len(calls[i].parents) |-> calls[i].parents[j].tagName] = open

\* C17 witness: in `<a><b>x<b/>` the text and the self-closing tag were each
\* handed over with path a.b and the two parents a and b.
C17_Witness ==
  /\ xml = Str(<<"<", "a", ">", "<", "b", ">", "x", "<", "b", "/", ">">>)
  /\ Len(calls) = 2
  /\ calls[1].path = Str(<<"a", ".", "b">>)
  /\ calls[2].path = Str(<<"a", ".", "b">>)
  /\ Len(calls[2].parents) = 2

\* C18: once the callback has returned true, walkXmlNodes returns without
\* error, the callback is never called again and no further token is pulled
\* from the stream, whatever tags are still open: the call that returned
\* true is the last one, the token it was made for is the last one yielded,
\* the generator runs no more, and nothing of this changes afterwards.
C18_StopEndsTheWalk ==
  /\ [](consumer = "walk" =>
          \A i \in 1..Len(calls) :
            calls[i].returned =>
              /\ i = Len(calls)
              /\ wpc = "stopped"
              /\ VisitIndexes(Taken, 1)[i] = taken
              /\ Len(out) = taken
              /\ pc \notin {"scan", "entity"})
  /\ [][wpc = "stopped" => UNCHANGED vars]_vars

\* C18 witness: in `<a><b>x</b>` the callback returned true for the text
\* while a and b were open; the walk has stopped with the closing tag unread.
C18_Witness ==
  /\ xml = Str(<<"<", "a", ">", "<", "b", ">", "x", "<", "/", "b", ">">>)
  /\ wpc = "stopped"
  /\ Len(parents) = 2
  /\ taken = 3

\* C19: for every token with tag NONE, CDATA or COMMENT the node that
\* walkXmlNodes passes to the callback is a leaf node, the one buildXmlTree
\* makes for the same token: its type is the token's tag and it carries
\* `content`, the decoded content of the token, and no `tagName`.
C19_LeafTokensGiveLeafNodes ==
  consumer = "walk" =>
    \A i \in 1..Len(calls) :
      LET tok == Taken[VisitIndexes(Taken, 1)[i]]
      IN  tok.tag \in {"NONE", "CDATA", "COMMENT"} => calls[i].node = LeafNode(tok)

\* The run without the whitespace it starts with
RECURSIVE DropLeadingWhitespace(_)
DropLeadingWhitespace(run) ==
  IF run # <<>> /\ Head(run) \in {CR, LF, TAB, SPACE}
  THEN DropLeadingWhitespace(Tail(run)) ELSE run

\* The contents of the TEXT tokens among toks
RECURSIVE TextContents(_)
TextContents(toks) ==
  IF toks = <<>> THEN <<>>
  ELSE (IF Head(toks).type = "TEXT" THEN <<Head(toks).content>> ELSE <<>>)
       \o TextContents(Tail(toks))

\* C20 as stated: with whitespace-skip off, the content of the TEXT token of
\* an entity-free text run is the code points of the whole run, at the start
\* of the input and after a tag alike.
C20_TextIsWholeRun ==
  \A c \in RunCases :
    (xml = RunDoc(c) /\ consumer = "drain" /\ ~canSkipStartingWhitespace /\ Ended) =>
      /\ pc = "done"
      /\ TextContents(out) = <<c.run>>

\* C20, amended: a non-empty input without `<`, `&` and zero, parsed with
\* whitespace-skip off, yields exactly one token, a TEXT token whose content
\* is the whole input code point for code point; a text run where
\* whitespace-skip is on (after a tag, or at the start of the input with
\* the flag set) yields a TEXT token whose content is the run from its first
\* code point that is not whitespace, and no TEXT token if there is none;
\* decoding the content gives the same text.
C20_TextIsRunAfterSkip ==
  \A c \in RunCases :
    (xml = RunDoc(c) /\ consumer = "drain" /\ Ended) =>
      LET skipped == c.lead # <<>> \/ canSkipStartingWhitespace
          kept == IF skipped THEN DropLeadingWhitespace(c.run) ELSE c.run
      IN  /\ pc = "done"
          /\ TextContents(out) = IF kept = <<>> THEN <<>> ELSE <<kept>>
          /\ \A i \in 1..Len(out) :
               out[i].type = "TEXT" => getContentAsStr(out[i].content) = kept
          /\ (c.lead = <<>> /\ c.tail = <<>> /\ ~canSkipStartingWhitespace) =>
               (Len(out) = 1 /\ out[1].type = "TEXT" /\ out[1].content = xml)

\* C20 witness: `<a> x ` was read to its end: the text after the tag came
\* out as `x `, without the space it starts with and with the one it ends with.
C20_Witness ==
  /\ xml = Str(<<"<", "a", ">", " ", "x", " ">>)
  /\ consumer = "drain"
  /\ pc = "done"
  /\ Len(out) = 2
  /\ out[2].type = "TEXT"
  /\ out[2].content = Str(<<"x", " ">>)

\* C21: while scanning at position pos, parseXml looks the input up only at
\* the indices pos .. pos+8: no step reads an index more than 8 past the
\* current scan position.
C21_ReadsWithinEight == ReadAhead <= 8

Seen(tok) ==
  Made(tok.type, tok.tag, tok.content,
       IF tok.attributes = None THEN <<>>
       ELSE [i \in 1..Len(tok.attributes[1]) |->
               <<tok.attributes[1][i].key, tok.attributes[1][i].value>>])

\* C23: canSkipStartingWhitespace only decides what becomes of the whitespace
\* the input starts with.  For a whitespace run W and an input X that starts
\* with a character that is not whitespace: X alone gives the same tokens
\* with the flag set and unset; with the flag set W followed by X gives the
\* tokens of X (types, tags, contents, attribute keys and values); with the
\* flag unset W is not dropped: it starts a TEXT token, which goes on with the
\* text X starts with, if any, and the tokens of X follow.
C23_FlagOnlyDropsLeadingRun ==
  \A c \in LeadCases :
    (xml = LeadDoc(c) /\ consumer = "drain" /\ Ended) =>
      LET seen == [i \in 1..Len(out) |-> Seen(out[i])]
          alone == c.body.tokens
      IN  /\ pc = "done"
          /\ IF c.lead = <<>> \/ canSkipStartingWhitespace THEN seen = alone
             ELSE IF Head(alone).type = "TEXT"
             THEN seen = <<[Head(alone) EXCEPT !.content = c.lead \o @]>> \o Tail(alone)
             ELSE seen = <<Made("TEXT", "NONE", c.lead, <<>>)>> \o alone

\* C23 witness: ` \n<a k="v"> x</a>` was read to its end with the flag set and
\* gave the three tokens of `<a k="v"> x</a>`.
C23_Witness ==
  /\ xml = <<SPACE, LF>> \o Str(<<"<", "a", " ", "k", "=", "\"", "v", "\"", ">", " ", "x", "<", "/", "a", ">">>)
  /\ consumer = "drain"
  /\ canSkipStartingWhitespace
  /\ pc = "done"
  /\ Len(out) = 3
  /\ out[1].type = "TAG_OPEN"

\* C24: after parseXml has yielded a COMMENT or CDATA token, scanning goes on
\* in state NONE at the offset right after the three characters of the
\* closer (`-->` or `]]>`): the character at that offset is the next one
\* dispatched, and no character after the closer is passed over unexamined.
C24_ResumesRightAfterCloser ==
  [][(pc = "scan" /\ state \in {"READING_COMMENT", "READING_CDATA"}
        /\ Len(out') = Len(out) + 1) =>
       (state' = "NONE" /\ pos' = pos + 3)]_vars

\* C25: in a comment or a CDATA block that is the first construct of the
\* input, every code point up to the first occurrence of the closer goes
\* unchanged into the content of the token: `<`, `>`, `&...;`, quotes and
\* whitespace are kept as written, no entity is decoded and no whitespace is
\* skipped, with the whitespace flag set or unset.
C25_BlocksKeptRaw ==
  (consumer = "drain" /\ Ended) =>
    \A c \in RawCases :
      xml = c.doc =>
        /\ pc = "done"
        /\ Len(out) = 1
        /\ out[1].type = "TAG_SELF_CLOSE"
        /\ out[1].tag = c.kind
        /\ out[1].content = c.body
        /\ out[1].attributes = None

\* C25 witness: the comment `<!-- <a> -->` and the CDATA block
\* `<![CDATA[&lt;]]>` were read to their end, the first with the flag set.
C25_Witness ==
  \/ /\ xml = Str(<<"<", "!", "-", "-", " ", "<", "a", ">", " ", "-", "-", ">">>)
     /\ canSkipStartingWhitespace
     /\ pc = "done"
     /\ out[1].content = Str(<<" ", "<", "a", ">", " ">>)
  \/ /\ xml = Str(<<"<", "!", "[", "C", "D", "A", "T", "A", "[", "&", "l", "t", ";", "]", "]", ">">>)
     /\ pc = "done"
     /\ out[1].content = Str(<<"&", "l", "t", ";">>)

\* The last code unit of s
Last(s) == s[Len(s)]

\* The terminator written is unit followed by `>`
EndsBy(ender, unit) == Len(ender) > 1 /\ ender[Len(ender) - 1] = unit

\* C26: a tag token is ended by `>`, `/>` or `?>` only while the tag
\* sub-state is READING_TAG_NAME or READING_ATTR_NAME.  The step that yields
\* a tag token is taken in one of these sub-states at one of these
\* terminators, and the token keeps its type unless the terminator is `/>`,
\* which makes it TAG_SELF_CLOSE; inside a quoted attribute value a `>`, `/`
\* or `?` is appended to the value and the tag goes on; a tag with such a
\* value ends where its terminator stands, with the value as written.
C26_TagEndsOutsideValues ==
  /\ [][(pc = "scan" /\ state = "READING_TAG_UNTIL_CLOSE" /\ out' # out) =>
          /\ rtState \in {"READING_TAG_NAME", "READING_ATTR_NAME"}
          /\ \/ c0 = ANGLE_BRACKET_CLOSE
             \/ c0 \in {FORWARD_SLASH, QUESTION} /\ CharCodeAt(pos + 1) = ANGLE_BRACKET_CLOSE
          /\ Len(out') = Len(out) + 1
          /\ Last(out').type = IF c0 = FORWARD_SLASH THEN "TAG_SELF_CLOSE" ELSE token.type
          /\ state' = "NONE"]_vars
  /\ [][(pc = "scan" /\ state = "READING_TAG_UNTIL_CLOSE" /\ rtState = "READING_ATTR_VALUE"
           /\ attribute.term_c # 0 /\ pos' # pos
           /\ c0 \in {ANGLE_BRACKET_CLOSE, FORWARD_SLASH, QUESTION}) =>
          /\ pc' = "scan" /\ state' = state /\ rtState' = rtState
          /\ out' = out
          /\ token' = token
          /\ attribute'.value = Append(attribute.value, c0)]_vars
  /\ []((consumer = "drain" /\ Ended) =>
          \A c \in EndCases :
            xml = c.doc =>
              IF EndsBy(c.ender, QUESTION) /\ c.opener.tag # "DECLARATION"
              THEN pc = "failed"
              ELSE /\ pc = "done"
                   /\ Len(out) = 1
                   /\ out[1].tag = c.opener.tag
                   /\ out[1].type = IF EndsBy(c.ender, FORWARD_SLASH)
                                    THEN "TAG_SELF_CLOSE" ELSE c.opener.type
                   /\ out[1].attributes # None
                   /\ Len(out[1].attributes[1]) = 1
                   /\ out[1].attributes[1][1].value = c.value)

\* C26 witness: `</a k='/>'>` was read to its end: the `/>` inside the value
\* did not end the tag, and the `>` after it did and kept the type TAG_CLOSE.
C26_Witness ==
  /\ xml = Str(<<"<", "/", "a", " ", "k", "=", "'", "/", ">", "'", ">">>)
  /\ pc = "done"
  /\ Len(out) = 1
  /\ out[1].type = "TAG_CLOSE"
  /\ out[1].attributes[1][1].value = Str(<<"/", ">">>)

\* C27: in an attribute value delimited by the quote character q, a
\* backslash immediately followed by q appends q to the value, takes both
\* characters and does not end the value; the value ends exactly at the
\* first q that no such backslash precedes; the other quote character and a
\* backslash not followed by q are appended as they are.  For the text that
\* follows the opening quote: if it holds such a q, the attribute is pushed
\* with the text before that q, escapes read as q, as its value and the
\* offset of that q as its end; if it holds none, no attribute is pushed, the
\* whole rest of the input goes into the value and parseXml fails at the end
\* of the input.
C27_BackslashEscapesItsQuote ==
  (consumer = "drain" /\ Ended) =>
    \A c \in EscCases :
      xml = c.doc =>
        LET text == c.rest \o <<ANGLE_BRACKET_CLOSE>>
            e == ValueEnd(text, c.quote, 1)
            tag == IF out # <<>> THEN out[1] ELSE token
        IN  IF e <= Len(text)
            THEN /\ tag.attributes # None
                 /\ tag.attributes[1][1].value = Unescape(SubSeq(text, 1, e - 1), c.quote)
                 /\ tag.attributes[1][1].term_c = c.quote
                 /\ tag.attributes[1][1].end = 5 + e
            ELSE /\ pc = "failed" /\ error = "Unexpected end of stream"
                 /\ out = <<>>
                 /\ token.attributes = None
                 /\ attribute.value = Unescape(text, c.quote)

\* C27 witness: `<a k="\"'">` was read to its end with the value `"'`, the
\* escaped quote and the other quote; `<a k='\x'>` with the value `\x`.
C27_Witness ==
  \/ /\ xml = Str(<<"<", "a", " ", "k", "=", "\"", "\\", "\"", "'", "\"", ">">>)
     /\ pc = "done"
     /\ Len(out) = 1
     /\ out[1].attributes[1][1].value = Str(<<"\"", "'">>)
  \/ /\ xml = Str(<<"<", "a", " ", "k", "=", "'", "\\", "x", "'", ">">>)
     /\ pc = "done"
     /\ Len(out) = 1
     /\ out[1].attributes[1][1].value = Str(<<"\\", "x">>)

\* C28: whenever an attribute name in a tag is not followed, after optional
\* spaces, by `=`, parseXml fails: no tag token is yielded while an attribute
\* name has been read whose `=` and quoted value have not, so that no
\* attribute name read from the input is dropped.
C28_NameWithoutValueFails ==
  [][(pc = "scan" /\ state = "READING_TAG_UNTIL_CLOSE" /\ out' # out) =>
       attribute.key = <<>>]_vars

\* C29: for every attribute of a yielded token, start is the offset in the
\* input of the first character of its key and end is the offset of the
\* quote that closes its value, for the first attribute of the first tag of
\* the input as for the others.
C29_AttributeOffsets ==
  \A i \in 1..Len(out) :
    out[i].attributes # None =>
      \A j \in 1..Len(out[i].attributes[1]) :
        LET a == out[i].attributes[1][j]
        IN  /\ a.start >= 0 /\ a.start < a.end /\ a.end < Len(xml)
            /\ SubSeq(xml, a.start + 1, a.start + Len(a.key)) = a.key
            /\ CharCodeAt(a.end) = a.term_c
            /\ a.end > out[i].start /\ a.end <= out[i].end

C31_GapAfterTagInNoToken ==
  (consumer = "drain" /\ Ended) =>
    \A c \in GapCases :
      xml = c.doc =>
        LET texts == TextContents(out)
        IN  /\ pc = "done"
            /\ \A i \in 1..Len(texts) :
                 texts[i] # <<>> /\ Head(texts[i]) \notin {CR, LF, TAB, SPACE}
            /\ (~c.lead.closer \/ c.gap # <<>>) =>
                 texts = (IF c.text = <<>> THEN <<>> ELSE <<c.text>>)

\* C31 witness: `<a/>\t\nx <b>` was read to its end with the flag unset: the
\* gap is in no token, and the TEXT token is `x ` with the space it ends with.
C31_Witness ==
  /\ xml = Str(<<"<", "a", "/", ">">>) \o <<TAB, LF>> \o Str(<<"x", " ", "<", "b", ">">>)
  /\ consumer = "drain"
  /\ ~canSkipStartingWhitespace
  /\ pc = "done"
  /\ Len(out) = 3
  /\ out[2].type = "TEXT"
  /\ out[2].content = Str(<<"x", " ">>)

\* The closing marks of the elements named, innermost first
RECURSIVE ClosingMarks(_)
ClosingMarks(open) ==
  IF open = <<>> THEN <<>>
  ELSE << <<"close", open[Len(open)]>> >> \o ClosingMarks(SubSeq(open, 1, Len(open) - 1))

\* C32: when the token stream is exhausted while elements are still open,
\* buildXmlTree returns normally, each open element holding the children
\* collected so far (the tree is the one of the same tokens followed by the
\* missing closing tags, innermost first), and walkXmlNodes returns normally
\* with the open tags still on its stack; neither fails on such an input.
C32_OpenAtEndReturns ==
  xml \in OpenDocs =>
    /\ consumer = "build" =>
         /\ bpc \notin {"mismatch", "failed"}
         /\ bpc = "returned" =>
              /\ Exhausted
              /\ OpenNames(out, <<>>) # <<>>
              /\ Serialize(tree[1]) = [i \in 1..Len(out) |-> TokenMark(out[i])]
                                       \o ClosingMarks(OpenNames(out, <<>>))
    /\ consumer = "walk" =>
         /\ wpc \notin {"mismatch", "failed"}
         /\ wpc = "returned" =>
              /\ Exhausted
              /\ parents # <<>>
              /\ ParentNames = OpenNames(out, <<>>)

\* C32 witness: `<a><b>x<c>` was built to its end with a, b and c open: a
\* holds b, b holds the text and c, c holds nothing; and it was walked to its
\* end with a, b and c on the stack.
C32_Witness ==
  /\ xml = Str(<<"<", "a", ">", "<", "b", ">", "x", "<", "c", ">">>)
  /\ \/ /\ consumer = "build" /\ bpc = "returned"
        /\ Len(tree[1]) = 1
        /\ tree[1][1].tagName = Str(<<"a">>)
        /\ Len(tree[1][1].children[1]) = 1
        /\ Len(tree[1][1].children[1][1].children[1]) = 2
        /\ tree[1][1].children[1][1].children[1][2].children = Some(<<>>)
     \/ /\ consumer = "walk" /\ wpc = "returned" /\ Len(parents) = 3

\* C33: in the outermost call of buildXmlTree, which expects no closing name,
\* the first closing tag ends the build without an error whatever its name:
\* as soon as a closing tag that no open element precedes is taken, the build
\* has returned the nodes of the tokens before it, and that closing tag stays
\* the last token ever pulled from the tokenizer
C33_RootCloseEndsBuild ==
  consumer = "build" =>
    \A i \in 1..Len(out) :
      ( /\ out[i].type = "TAG_CLOSE"
        /\ OpenNames(SubSeq(out, 1, i - 1), <<>>) = <<>>
        /\ taken >= i ) =>
          /\ bpc = "returned"
          /\ taken = i
          /\ Len(out) = i
          /\ pc = "scan"
          /\ tree # None
          /\ Serialize(tree[1]) = [j \in 1..(i - 1) |-> TokenMark(out[j])]

C33_Witness ==
  /\ xml = Str(<<"<", "a", ">", "<", "/", "a", ">", "<", "/", "b", ">", "x">>)
  /\ consumer = "build"
  /\ bpc = "returned"
  /\ Len(out) = 3
  /\ out[3].type = "TAG_CLOSE"
  /\ getContentAsStr(out[3].content) = Str(<<"b">>)
  /\ Len(tree[1]) = 1
  /\ tree[1][1].tagName = Str(<<"a">>)
  /\ tree[1][1].children = Some(<<>>)
  /\ pos < Len(xml)

====
